---- MODULE Spec2Model ----
(***************************************************************************)
(* Hospital network scheduler (niveau 3): ReseauHospitalier and the        *)
(* entities it coordinates (RendezVous, ActeMedical, Patient,              *)
(* PersonnelMedical, CentreHospitalier, DossierMedical), with the          *)
(* dictionaries and the event loop of the desktop host (app).              *)
(*                                                                         *)
(* Objects are modelled by their identity (a name); Python dataclass       *)
(* equality between two distinct objects is taken to be false, the         *)
(* identifying fields (name, e-mail, social-security number) being unique. *)
(* Date-times are whole hours counted from an arbitrary origin.            *)
(***************************************************************************)
EXTENDS Integers, Sequences, FiniteSets, TLC

VARIABLES reseau, patients, personnels, centres, app, gestion, last

vars == <<reseau, patients, personnels, centres, app, gestion, last>>

---------------------------------------------------------------------------
(* Bounds of the model *)

\* longest staff list passed to creer_rendez_vous
MaxPersonnels == 2

\* most transfers recorded in the medical records, all patients together
MaxTransferts == 2

\* most acts in the records before an act built outside an appointment is realised
MaxActes == 1

---------------------------------------------------------------------------
(* The universe of objects *)

Aucun == "None"

TypeActeMedical == {"Consultation", "Soin", "Intervention chirurgicale"}

PLANIFIE == "Planifie"
ANNULE == "Annule"
REALISE == "Realise"

\* the class of each staff object (Medecin, Infirmier, Chirurgien)
Classe == [m1 |-> "Medecin", m2 |-> "Medecin", i1 |-> "Infirmier", ch1 |-> "Chirurgien"]

Personnels == DOMAIN Classe

Patients == {"p1", "p2"}

\* cX is a centre object the network does not manage
Centres == {"cV", "cR", "cX"}

\* Departement.villes
Departements == [d78 |-> <<"Versailles", "Mantes">>, d76 |-> <<"Rouen">>]

\* CentreHospitalier.ville
VilleDe == [cV |-> "Versailles", cR |-> "Rouen", cX |-> "Mantes"]

\* Region.departements
Regions == [IDF |-> <<"d78">>, Normandie |-> <<"d76">>]

\* the identifiers a caller uses for appointments
IdsRdv == {1, 2}

\* appointment slots, in hours
Creneaux == {25, 26}

\* request times of a patient cancellation, in hours
DatesDemande == {1, 2, 13, 26}

\* dates of a transfer, in hours
DatesTransfert == {3, 4}

\* the identifier and slot used where one appointment is enough
IdsRdvUnique == {1}

\* timedelta(hours=24) of RendezVous.annuler_par_patient
DelaiAnnulation == 24

Elements(s) == {s[i] : i \in DOMAIN s}

\* the lists of at most n members of S
RECURSIVE SeqsJusqua(_, _)
SeqsJusqua(S, n) ==
    IF n = 0 THEN {<<>>}
    ELSE LET plus_courtes == SeqsJusqua(S, n - 1)
         IN  plus_courtes \cup {Append(s, x) : s \in plus_courtes, x \in S}

\* the staff lists a caller may pass: no member twice
ListesPersonnels ==
    {s \in SeqsJusqua(Personnels, MaxPersonnels) : Cardinality(Elements(s)) = Len(s)}

---------------------------------------------------------------------------
(* Geography *)

\* Departement.contient_ville
DepartementContientVille(departement, ville) ==
    ville \in Elements(app.departements[departement])

\* Region.contient_ville
RegionContientVille(region, ville) ==
    \E i \in DOMAIN app.regions[region] :
        DepartementContientVille(app.regions[region][i], ville)

---------------------------------------------------------------------------
(* Staff *)

EstDisponibleDans(personnel, centre) ==
    personnels[personnel].centre_disponible = centre

\* variant: any centre is accepted
DefinirDisponibiliteErreurSansControle(personnel, centre) == "ok"

\* the check of PersonnelMedical.definir_disponibilite
DefinirDisponibiliteErreur(personnel, centre) ==
    IF centre \notin Elements(personnels[personnel].centres_rattaches)
    THEN "non_rattache"
    ELSE "ok"

---------------------------------------------------------------------------
(* Eligibility rules *)

\* variant: an intervention needs no surgeon and no nurse
VerifierAffectationPersonnelSansPresence(type_acte, pers) ==
    IF type_acte = "Consultation"
    THEN IF Len(pers) # 1 \/ Classe[pers[1]] # "Medecin" THEN "affectation" ELSE "ok"
    ELSE IF type_acte = "Soin"
    THEN IF Len(pers) # 1 \/ Classe[pers[1]] # "Infirmier" THEN "affectation" ELSE "ok"
    ELSE IF \E i \in DOMAIN pers : Classe[pers[i]] \notin {"Chirurgien", "Infirmier"}
    THEN "affectation"
    ELSE "ok"

\* RendezVous.verifier_affectation_personnel
VerifierAffectationPersonnel(type_acte, pers) ==
    IF type_acte = "Consultation"
    THEN IF Len(pers) # 1 \/ Classe[pers[1]] # "Medecin" THEN "affectation" ELSE "ok"
    ELSE IF type_acte = "Soin"
    THEN IF Len(pers) # 1 \/ Classe[pers[1]] # "Infirmier" THEN "affectation" ELSE "ok"
    ELSE IF \E i \in DOMAIN pers : Classe[pers[i]] \notin {"Chirurgien", "Infirmier"}
    THEN "affectation"
    ELSE IF ~ (  (\E i \in DOMAIN pers : Classe[pers[i]] = "Chirurgien")
              /\ (\E i \in DOMAIN pers : Classe[pers[i]] = "Infirmier"))
    THEN "affectation"
    ELSE "ok"

\* RendezVous.__post_init__
RendezVousPostInit(type_acte, pers) ==
    IF pers = <<>> THEN "sans_personnel"
    ELSE VerifierAffectationPersonnel(type_acte, pers)

\* variant: the staff of the act must also be available at the act's centre
VerifierHabilitationDisponible(acte) ==
    IF \E i \in DOMAIN acte.personnels : ~ EstDisponibleDans(acte.personnels[i], acte.centre)
    THEN "habilitation"
    ELSE IF acte.type_acte = "Consultation"
    THEN IF Len(acte.personnels) # 1 \/ Classe[acte.personnels[1]] # "Medecin"
         THEN "habilitation" ELSE "ok"
    ELSE IF acte.type_acte = "Soin"
    THEN IF Len(acte.personnels) # 1 \/ Classe[acte.personnels[1]] # "Infirmier"
         THEN "habilitation" ELSE "ok"
    ELSE "ok"

\* Consultation / Soin / InterventionChirurgicale .verifier_habilitation
VerifierHabilitation(acte) ==
    IF acte.type_acte = "Consultation"
    THEN IF Len(acte.personnels) # 1 \/ Classe[acte.personnels[1]] # "Medecin"
         THEN "habilitation" ELSE "ok"
    ELSE IF acte.type_acte = "Soin"
    THEN IF Len(acte.personnels) # 1 \/ Classe[acte.personnels[1]] # "Infirmier"
         THEN "habilitation" ELSE "ok"
    ELSE IF \E i \in DOMAIN acte.personnels :
                Classe[acte.personnels[i]] \notin {"Chirurgien", "Infirmier"}
    THEN "habilitation"
    ELSE IF ~ (  (\E i \in DOMAIN acte.personnels : Classe[acte.personnels[i]] = "Chirurgien")
              /\ (\E i \in DOMAIN acte.personnels : Classe[acte.personnels[i]] = "Infirmier"))
    THEN "habilitation"
    ELSE "ok"

---------------------------------------------------------------------------
(* The network's checks *)

\* the keys of the dict ReseauHospitalier.rendez_vous
IdsEnregistres == {reseau.rendez_vous[i].id_rendez_vous : i \in DOMAIN reseau.rendez_vous}

\* position of an id in the dict (insertion order)
IndexDe(id_rdv) ==
    CHOOSE i \in DOMAIN reseau.rendez_vous : reseau.rendez_vous[i].id_rendez_vous = id_rdv

\* ReseauHospitalier._obtenir_rendez_vous, for a registered id
ObtenirRendezVous(id_rdv) == reseau.rendez_vous[IndexDe(id_rdv)]

\* ReseauHospitalier._verifier_centre_existant
VerifierCentreExistant(centre) ==
    IF centre \notin Elements(reseau.centres) THEN "centre_non_gere" ELSE "ok"

\* variant: the region is tested against the patient's own city
VerifierPatientRegionVilleResidence(patient, centre) ==
    IF ~ RegionContientVille(patients[patient].region_residence,
                             patients[patient].ville_residence)
    THEN "hors_region"
    ELSE "ok"

\* ReseauHospitalier._verifier_patient_region
VerifierPatientRegion(patient, centre) ==
    IF ~ RegionContientVille(patients[patient].region_residence, centres[centre].ville)
    THEN "hors_region"
    ELSE "ok"

\* variant: the availability of the staff member is not tested
PersonnelAffectableErreurSansDisponibilite(centre, personnel) ==
    IF personnel \notin Elements(centres[centre].personnels) THEN "non_rattache"
    ELSE "ok"

\* one iteration of the loop of _verifier_personnels_affectables
PersonnelAffectableErreur(centre, personnel) ==
    IF personnel \notin Elements(centres[centre].personnels) THEN "non_rattache"
    ELSE IF ~ EstDisponibleDans(personnel, centre) THEN "indisponible"
    ELSE "ok"

\* ReseauHospitalier._verifier_personnels_affectables: the first staff member
\* of the list that fails decides the error
VerifierPersonnelsAffectables(centre, pers) ==
    LET fautifs == {i \in DOMAIN pers : PersonnelAffectableErreur(centre, pers[i]) # "ok"}
    IN  IF fautifs = {} THEN "ok"
        ELSE LET premier == CHOOSE i \in fautifs : \A j \in fautifs : i <= j
             IN  PersonnelAffectableErreur(centre, pers[premier])

\* variant: an appointment dated before the requested date is scanned too
EstScanneJusqua(rdv, date_heure, exclure_id) ==
    /\ ~ (exclure_id # 0 /\ rdv.id_rendez_vous = exclure_id)
    /\ ~ (rdv.statut # PLANIFIE \/ rdv.date_heure > date_heure)

\* variant: only an appointment that is Annule is skipped for its status
EstScanneSaufAnnule(rdv, date_heure, exclure_id) ==
    /\ ~ (exclure_id # 0 /\ rdv.id_rendez_vous = exclure_id)
    /\ ~ (rdv.statut = ANNULE \/ rdv.date_heure # date_heure)

\* _verifier_conflits: the appointments the loop does not skip; identifiers are
\* positive and exclure_id = 0 stands for None
EstScanne(rdv, date_heure, exclure_id) ==
    /\ ~ (exclure_id # 0 /\ rdv.id_rendez_vous = exclure_id)
    /\ ~ (rdv.statut # PLANIFIE \/ rdv.date_heure # date_heure)

\* variant: the patient test ignores the act type
ConflitPatientToutType(rdv, patient, type_acte) ==
    rdv.patient = patient

\* variant: the patient is never tested
ConflitPatientJamais(rdv, patient, type_acte) == FALSE

\* the patient test of the loop of _verifier_conflits
ConflitPatient(rdv, patient, type_acte) ==
    rdv.patient = patient /\ rdv.type_acte # type_acte

ConflitPersonnel(rdv, pers) ==
    \E i \in DOMAIN pers : pers[i] \in Elements(rdv.personnels)

\* variant: the loop tests the patient only
VerifierConflitsSansPersonnel(patient, type_acte, pers, date_heure, exclure_id) ==
    IF \E i \in DOMAIN reseau.rendez_vous :
           /\ EstScanne(reseau.rendez_vous[i], date_heure, exclure_id)
           /\ ConflitPatient(reseau.rendez_vous[i], patient, type_acte)
    THEN "conflit_patient"
    ELSE "ok"

\* variant: the loop tests the staff only
VerifierConflitsSansPatient(patient, type_acte, pers, date_heure, exclure_id) ==
    IF \E i \in DOMAIN reseau.rendez_vous :
           /\ EstScanne(reseau.rendez_vous[i], date_heure, exclure_id)
           /\ ConflitPersonnel(reseau.rendez_vous[i], pers)
    THEN "conflit_personnel"
    ELSE "ok"

\* the loop of _verifier_conflits over a dict of appointments, scanned in
\* insertion order; the first scanned appointment that conflicts raises, the
\* patient test before the staff test
VerifierConflitsDans(rdvs, patient, type_acte, pers, date_heure, exclure_id) ==
    LET fautifs == {i \in DOMAIN rdvs :
                       /\ EstScanne(rdvs[i], date_heure, exclure_id)
                       /\ \/ ConflitPatient(rdvs[i], patient, type_acte)
                          \/ ConflitPersonnel(rdvs[i], pers)}
    IN  IF fautifs = {} THEN "ok"
        ELSE LET premier == CHOOSE i \in fautifs : \A j \in fautifs : i <= j
             IN  IF ConflitPatient(rdvs[premier], patient, type_acte)
                 THEN "conflit_patient"
                 ELSE "conflit_personnel"

\* ReseauHospitalier._verifier_conflits, on self.rendez_vous
VerifierConflits(patient, type_acte, pers, date_heure, exclure_id) ==
    VerifierConflitsDans(reseau.rendez_vous, patient, type_acte, pers,
                         date_heure, exclure_id)

\* variant: only an appointment that is still Planifie keeps its id taken
CreerErreurSaufPlanifie(id_rdv, date_heure, patient, centre, type_acte, pers) ==
    IF \E i \in DOMAIN reseau.rendez_vous :
           /\ reseau.rendez_vous[i].id_rendez_vous = id_rdv
           /\ reseau.rendez_vous[i].statut = PLANIFIE
    THEN "existe_deja"
    ELSE IF VerifierCentreExistant(centre) # "ok" THEN VerifierCentreExistant(centre)
    ELSE IF VerifierPatientRegion(patient, centre) # "ok"
    THEN VerifierPatientRegion(patient, centre)
    ELSE IF VerifierPersonnelsAffectables(centre, pers) # "ok"
    THEN VerifierPersonnelsAffectables(centre, pers)
    ELSE IF RendezVousPostInit(type_acte, pers) # "ok"
    THEN RendezVousPostInit(type_acte, pers)
    ELSE VerifierConflits(patient, type_acte, pers, date_heure, 0)

\* variant: the regional-access check runs before the centre check
CreerErreurRegionDAbord(id_rdv, date_heure, patient, centre, type_acte, pers) ==
    IF id_rdv \in IdsEnregistres THEN "existe_deja"
    ELSE IF VerifierPatientRegion(patient, centre) # "ok"
    THEN VerifierPatientRegion(patient, centre)
    ELSE IF VerifierCentreExistant(centre) # "ok" THEN VerifierCentreExistant(centre)
    ELSE IF VerifierPersonnelsAffectables(centre, pers) # "ok"
    THEN VerifierPersonnelsAffectables(centre, pers)
    ELSE IF RendezVousPostInit(type_acte, pers) # "ok"
    THEN RendezVousPostInit(type_acte, pers)
    ELSE VerifierConflits(patient, type_acte, pers, date_heure, 0)

\* the outcome of ReseauHospitalier.creer_rendez_vous: "ok" or the error of
\* the first check that raises
CreerErreur(id_rdv, date_heure, patient, centre, type_acte, pers) ==
    IF id_rdv \in IdsEnregistres THEN "existe_deja"
    ELSE IF VerifierCentreExistant(centre) # "ok" THEN VerifierCentreExistant(centre)
    ELSE IF VerifierPatientRegion(patient, centre) # "ok"
    THEN VerifierPatientRegion(patient, centre)
    ELSE IF VerifierPersonnelsAffectables(centre, pers) # "ok"
    THEN VerifierPersonnelsAffectables(centre, pers)
    ELSE IF RendezVousPostInit(type_acte, pers) # "ok"
    THEN RendezVousPostInit(type_acte, pers)
    ELSE VerifierConflits(patient, type_acte, pers, date_heure, 0)

\* ReseauHospitalier.creer_rendez_vous on a network whose dict of appointments
\* is rdvs, the centres, staff and patients being those of the state
CreerErreurDans(rdvs, id_rdv, date_heure, patient, centre, type_acte, pers) ==
    IF id_rdv \in {rdvs[i].id_rendez_vous : i \in DOMAIN rdvs} THEN "existe_deja"
    ELSE IF VerifierCentreExistant(centre) # "ok" THEN VerifierCentreExistant(centre)
    ELSE IF VerifierPatientRegion(patient, centre) # "ok"
    THEN VerifierPatientRegion(patient, centre)
    ELSE IF VerifierPersonnelsAffectables(centre, pers) # "ok"
    THEN VerifierPersonnelsAffectables(centre, pers)
    ELSE IF RendezVousPostInit(type_acte, pers) # "ok"
    THEN RendezVousPostInit(type_acte, pers)
    ELSE VerifierConflitsDans(rdvs, patient, type_acte, pers, date_heure, 0)

---------------------------------------------------------------------------
(* Recording of the last call and its outcome *)

\* a call of the network or of a staff member: the operation, the appointment
\* id, date, staff member or centre it was given, the error raised ("ok" when
\* none) and the value returned (<<>> when none); the other arguments of a
\* creation are the fields of the appointment it returns
Appel(op, id_rdv, date, personnel, centre, err, ret) ==
    [op |-> op, id |-> id_rdv, date |-> date, personnel |-> personnel,
     centre |-> centre, err |-> err, ret |-> ret]

\* no call is being reported
Repos == Appel("repos", 0, 0, Aucun, Aucun, "ok", <<>>)

---------------------------------------------------------------------------
(* Initial state: the objects built and attached as in _demo *)

\* the host: the lists of its Departement and Region objects, the staff of its
\* directory and the handlers it has started and not finished
AppInitiale ==
    [departements |-> Departements, regions |-> Regions,
     personnels |-> Personnels, en_cours |-> <<>>]

\* the single-hospital scheduler of niveau2 and its patients, as _demo of that
\* module builds them: GestionRendezVous(personnels_hopital=[medecin, infirmier,
\* chirurgien]), no appointment, every patient with an empty record; dernier is
\* the outcome of the last call made on it
GestionInitiale ==
    [personnels_hopital |-> <<"m1", "i1", "ch1">>,
     rendez_vous |-> <<>>,
     patients |-> [p \in Patients |->
                     [rendez_vous |-> <<>>, dossier_medical |-> [actes |-> <<>>]]],
     dernier |-> [op |-> "repos", err |-> "ok", ret |-> <<>>]]

Init ==
    /\ reseau = [centres |-> <<"cV", "cR">>, rendez_vous |-> <<>>]
    /\ centres = [c \in Centres |->
                    [ville |-> VilleDe[c],
                     personnels |-> CASE c = "cV" -> <<"m1", "m2", "ch1", "i1">>
                                      [] c = "cR" -> <<"m1">>
                                      [] OTHER -> <<>>]]
    /\ personnels = [s \in Personnels |->
                    [centres_rattaches |-> IF s = "m1" THEN <<"cV", "cR">> ELSE <<"cV">>,
                     centre_disponible |-> "cV"]]
    /\ patients = [p \in Patients |->
                    [ville_residence |-> IF p = "p1" THEN "Versailles" ELSE "Rouen",
                     region_residence |-> IF p = "p1" THEN "IDF" ELSE "Normandie",
                     centre_actuel |-> IF p = "p1" THEN "cV" ELSE "cR",
                     rendez_vous |-> <<>>,
                     dossier_medical |->
                         [centre_reference |-> IF p = "p1" THEN "cV" ELSE "cR",
                          actes |-> <<>>,
                          transferts |-> <<>>]]]
    /\ app = AppInitiale
    /\ gestion = GestionInitiale
    /\ last = Repos

---------------------------------------------------------------------------
(* Operations: a call is made when no call is being reported *)

\* variant: the appointment joins the patient's list before the checks are run
CreerRendezVousListeDAbord(id_rdv, date_heure, patient, centre, type_acte, pers) ==
    LET err == CreerErreur(id_rdv, date_heure, patient, centre, type_acte, pers)
        rdv == [id_rendez_vous |-> id_rdv, date_heure |-> date_heure,
                patient |-> patient, centre |-> centre, type_acte |-> type_acte,
                personnels |-> pers, statut |-> PLANIFIE]
    IN  /\ last' = Appel("creer", id_rdv, 0, Aucun, Aucun, err,
                         IF err = "ok" THEN <<rdv>> ELSE <<>>)
        /\ patients' = [patients EXCEPT ![patient].rendez_vous = Append(@, id_rdv)]
        /\ reseau' = IF err = "ok"
                     THEN [reseau EXCEPT !.rendez_vous = Append(@, rdv)]
                     ELSE reseau
        /\ UNCHANGED <<personnels, centres>>

\* variant: the appointment is registered and not added to the patient's list
CreerRendezVousSansListe(id_rdv, date_heure, patient, centre, type_acte, pers) ==
    LET err == CreerErreur(id_rdv, date_heure, patient, centre, type_acte, pers)
        rdv == [id_rendez_vous |-> id_rdv, date_heure |-> date_heure,
                patient |-> patient, centre |-> centre, type_acte |-> type_acte,
                personnels |-> pers, statut |-> PLANIFIE]
    IN  /\ last' = Appel("creer", id_rdv, 0, Aucun, Aucun, err,
                         IF err = "ok" THEN <<rdv>> ELSE <<>>)
        /\ reseau' = IF err = "ok"
                     THEN [reseau EXCEPT !.rendez_vous = Append(@, rdv)]
                     ELSE reseau
        /\ UNCHANGED <<patients, personnels, centres>>

\* ReseauHospitalier.creer_rendez_vous
CreerRendezVous(id_rdv, date_heure, patient, centre, type_acte, pers) ==
    LET err == CreerErreur(id_rdv, date_heure, patient, centre, type_acte, pers)
        rdv == [id_rendez_vous |-> id_rdv, date_heure |-> date_heure,
                patient |-> patient, centre |-> centre, type_acte |-> type_acte,
                personnels |-> pers, statut |-> PLANIFIE]
    IN  /\ last' = Appel("creer", id_rdv, 0, Aucun, Aucun, err,
                         IF err = "ok" THEN <<rdv>> ELSE <<>>)
        /\ IF err = "ok"
           THEN /\ reseau' = [reseau EXCEPT !.rendez_vous = Append(@, rdv)]
                /\ patients' = [patients EXCEPT ![patient].rendez_vous = Append(@, id_rdv)]
           ELSE UNCHANGED <<reseau, patients>>
        /\ UNCHANGED <<personnels, centres>>

Creer ==
    /\ last = Repos
    /\ UNCHANGED <<app, gestion>>
    /\ \E id_rdv \in IdsRdv, date_heure \in Creneaux, patient \in DOMAIN patients,
          centre \in Centres, type_acte \in TypeActeMedical, pers \in ListesPersonnels :
          CreerRendezVous(id_rdv, date_heure, patient, centre, type_acte, pers)

\* variant: only a cancelled appointment is refused
VerifierPlanifieSaufRealise(rdv) ==
    IF rdv.statut = ANNULE THEN "etat" ELSE "ok"

\* RendezVous._verifier_planifie
VerifierPlanifie(rdv) ==
    IF rdv.statut # PLANIFIE THEN "etat" ELSE "ok"

\* variant: a request exactly 24h before is refused too
AnnulerParPatientErreurInclusif(rdv, date_demande) ==
    IF VerifierPlanifie(rdv) # "ok" THEN VerifierPlanifie(rdv)
    ELSE IF rdv.date_heure - date_demande <= DelaiAnnulation THEN "delai"
    ELSE "ok"

\* RendezVous.annuler_par_patient
AnnulerParPatientErreur(rdv, date_demande) ==
    IF VerifierPlanifie(rdv) # "ok" THEN VerifierPlanifie(rdv)
    ELSE IF rdv.date_heure - date_demande < DelaiAnnulation THEN "delai"
    ELSE "ok"

\* variant: only the first assigned staff member may cancel
AnnulerParPersonnelErreurPremier(rdv, personnel) ==
    IF VerifierPlanifie(rdv) # "ok" THEN VerifierPlanifie(rdv)
    ELSE IF personnel # rdv.personnels[1] THEN "non_affecte"
    ELSE "ok"

\* RendezVous.annuler_par_personnel
AnnulerParPersonnelErreur(rdv, personnel) ==
    IF VerifierPlanifie(rdv) # "ok" THEN VerifierPlanifie(rdv)
    ELSE IF personnel \notin Elements(rdv.personnels) THEN "non_affecte"
    ELSE "ok"

\* variant: the appointment being moved is scanned too
ModifierDateErreurSansExclusion(rdv, nouvelle_date) ==
    IF VerifierPlanifie(rdv) # "ok" THEN VerifierPlanifie(rdv)
    ELSE VerifierConflits(rdv.patient, rdv.type_acte, rdv.personnels, nouvelle_date, 0)

\* variant: the move is not checked against the other appointments
ModifierDateErreurSansConflit(rdv, nouvelle_date) ==
    VerifierPlanifie(rdv)

\* variant: the move checks again that the staff can be assigned at the centre
ModifierDateErreurAvecAffectation(rdv, nouvelle_date) ==
    IF VerifierPlanifie(rdv) # "ok" THEN VerifierPlanifie(rdv)
    ELSE IF VerifierPersonnelsAffectables(rdv.centre, rdv.personnels) # "ok"
    THEN VerifierPersonnelsAffectables(rdv.centre, rdv.personnels)
    ELSE VerifierConflits(rdv.patient, rdv.type_acte, rdv.personnels,
                          nouvelle_date, rdv.id_rendez_vous)

\* ReseauHospitalier.modifier_date_rendez_vous, for a registered id
ModifierDateErreur(rdv, nouvelle_date) ==
    IF VerifierPlanifie(rdv) # "ok" THEN VerifierPlanifie(rdv)
    ELSE VerifierConflits(rdv.patient, rdv.type_acte, rdv.personnels,
                          nouvelle_date, rdv.id_rendez_vous)

\* RendezVous._construire_acte, followed by ActeMedical.__post_init__
ConstruireActe(rdv) ==
    [type_acte |-> rdv.type_acte, date_acte |-> rdv.date_heure,
     patient |-> rdv.patient, centre |-> rdv.centre,
     personnels |-> rdv.personnels, est_realise |-> FALSE]

\* ActeMedical.__post_init__: every patient of the model owns a record
ActePostInit(acte) ==
    IF acte.personnels = <<>> THEN "sans_personnel" ELSE "ok"

\* variant: the act is realised without its eligibility check
ActeRealiserErreurSansHabilitation(acte) ==
    IF acte.est_realise THEN "deja_realise"
    ELSE "ok"

\* ActeMedical.realiser
ActeRealiserErreur(acte) ==
    IF acte.est_realise THEN "deja_realise"
    ELSE VerifierHabilitation(acte)

\* variant: the status is not tested
RealiserErreurSansEtat(rdv) ==
    IF ActePostInit(ConstruireActe(rdv)) # "ok"
    THEN ActePostInit(ConstruireActe(rdv))
    ELSE ActeRealiserErreur(ConstruireActe(rdv))

\* RendezVous.realiser
RealiserErreur(rdv) ==
    IF VerifierPlanifie(rdv) # "ok" THEN VerifierPlanifie(rdv)
    ELSE IF ActePostInit(ConstruireActe(rdv)) # "ok"
    THEN ActePostInit(ConstruireActe(rdv))
    ELSE ActeRealiserErreur(ConstruireActe(rdv))

\* the appointment object changed in place
AvecStatut(id_rdv, statut) ==
    [reseau EXCEPT !.rendez_vous[IndexDe(id_rdv)].statut = statut]

\* variant: the cancellation records the act of the appointment
AnnulerParPatientAvecActe(id_rdv, date_demande) ==
    LET err == IF id_rdv \in IdsEnregistres
               THEN AnnulerParPatientErreur(ObtenirRendezVous(id_rdv), date_demande)
               ELSE "introuvable"
        rdv == ObtenirRendezVous(id_rdv)
    IN  /\ last' = Appel("annuler_par_patient", id_rdv, date_demande, Aucun, Aucun,
                         err, <<>>)
        /\ reseau' = IF err = "ok" THEN AvecStatut(id_rdv, ANNULE) ELSE reseau
        /\ patients' = IF err = "ok"
                       THEN [patients EXCEPT ![rdv.patient].dossier_medical.actes =
                               Append(@, [ConstruireActe(rdv) EXCEPT !.est_realise = TRUE])]
                       ELSE patients
        /\ UNCHANGED <<personnels, centres>>

\* ReseauHospitalier.annuler_par_patient
AnnulerParPatient(id_rdv, date_demande) ==
    LET err == IF id_rdv \notin IdsEnregistres THEN "introuvable"
               ELSE AnnulerParPatientErreur(ObtenirRendezVous(id_rdv), date_demande)
    IN  /\ last' = Appel("annuler_par_patient", id_rdv, date_demande, Aucun, Aucun,
                         err, <<>>)
        /\ reseau' = IF err = "ok" THEN AvecStatut(id_rdv, ANNULE) ELSE reseau
        /\ UNCHANGED <<patients, personnels, centres>>

\* variant: the staff member who cancels leaves the appointment's staff list
AnnulerParPersonnelRetire(id_rdv, personnel) ==
    LET err == IF id_rdv \in IdsEnregistres
               THEN AnnulerParPersonnelErreur(ObtenirRendezVous(id_rdv), personnel)
               ELSE "introuvable"
    IN  /\ last' = Appel("annuler_par_personnel", id_rdv, 0, personnel, Aucun,
                         err, <<>>)
        /\ reseau' = IF err = "ok"
                     THEN [AvecStatut(id_rdv, ANNULE) EXCEPT
                             !.rendez_vous[IndexDe(id_rdv)].personnels =
                                 SelectSeq(@, LAMBDA x : x # personnel)]
                     ELSE reseau
        /\ UNCHANGED <<patients, personnels, centres>>

\* ReseauHospitalier.annuler_par_personnel
AnnulerParPersonnel(id_rdv, personnel) ==
    LET err == IF id_rdv \notin IdsEnregistres THEN "introuvable"
               ELSE AnnulerParPersonnelErreur(ObtenirRendezVous(id_rdv), personnel)
    IN  /\ last' = Appel("annuler_par_personnel", id_rdv, 0, personnel, Aucun,
                         err, <<>>)
        /\ reseau' = IF err = "ok" THEN AvecStatut(id_rdv, ANNULE) ELSE reseau
        /\ UNCHANGED <<patients, personnels, centres>>

\* ReseauHospitalier.modifier_date_rendez_vous
ModifierDateRendezVous(id_rdv, nouvelle_date) ==
    LET err == IF id_rdv \notin IdsEnregistres THEN "introuvable"
               ELSE ModifierDateErreur(ObtenirRendezVous(id_rdv), nouvelle_date)
    IN  /\ last' = Appel("modifier_date", id_rdv, nouvelle_date, Aucun, Aucun,
                         err, <<>>)
        /\ reseau' = IF err = "ok"
                     THEN [reseau EXCEPT
                             !.rendez_vous[IndexDe(id_rdv)].date_heure = nouvelle_date]
                     ELSE reseau
        /\ UNCHANGED <<patients, personnels, centres>>

\* variant: the act is inserted at the head of the record
RealiserRendezVousEnTete(id_rdv) ==
    LET err == IF id_rdv \notin IdsEnregistres THEN "introuvable"
               ELSE RealiserErreur(ObtenirRendezVous(id_rdv))
        rdv == ObtenirRendezVous(id_rdv)
        acte == [ConstruireActe(rdv) EXCEPT !.est_realise = TRUE]
    IN  /\ IF err = "ok"
           THEN /\ patients' = [patients EXCEPT
                                  ![rdv.patient].dossier_medical.actes = <<acte>> \o @]
                /\ reseau' = AvecStatut(id_rdv, REALISE)
                /\ last' = Appel("realiser", id_rdv, 0, Aucun, Aucun, err, <<acte>>)
                /\ UNCHANGED <<personnels, centres>>
           ELSE /\ last' = Appel("realiser", id_rdv, 0, Aucun, Aucun, err, <<>>)
                /\ UNCHANGED <<reseau, patients, personnels, centres>>

\* ReseauHospitalier.realiser_rendez_vous
RealiserRendezVous(id_rdv) ==
    LET err == IF id_rdv \notin IdsEnregistres THEN "introuvable"
               ELSE RealiserErreur(ObtenirRendezVous(id_rdv))
        rdv == ObtenirRendezVous(id_rdv)
        acte == [ConstruireActe(rdv) EXCEPT !.est_realise = TRUE]
    IN  /\ IF err = "ok"
           THEN /\ patients' = [patients EXCEPT
                                  ![rdv.patient].dossier_medical.actes = Append(@, acte)]
                /\ reseau' = AvecStatut(id_rdv, REALISE)
                /\ last' = Appel("realiser", id_rdv, 0, Aucun, Aucun, err, <<acte>>)
                /\ UNCHANGED <<personnels, centres>>
           ELSE /\ last' = Appel("realiser", id_rdv, 0, Aucun, Aucun, err, <<>>)
                /\ UNCHANGED <<reseau, patients, personnels, centres>>

\* PersonnelMedical.definir_disponibilite
DefinirDisponibilite(personnel, centre) ==
    LET err == DefinirDisponibiliteErreur(personnel, centre)
    IN  /\ last' = Appel("definir_disponibilite", 0, 0, personnel, centre, err, <<>>)
        /\ personnels' = IF err = "ok"
                         THEN [personnels EXCEPT ![personnel].centre_disponible = centre]
                         ELSE personnels
        /\ UNCHANGED <<reseau, patients, centres>>

\* the caller has taken the value returned or caught the exception
Retour ==
    /\ last # Repos
    /\ last' = Repos
    /\ UNCHANGED <<reseau, patients, personnels, centres, app, gestion>>

AnnulerPatient ==
    /\ last = Repos
    /\ UNCHANGED <<app, gestion>>
    /\ \E id_rdv \in IdsRdv, date_demande \in DatesDemande :
          AnnulerParPatient(id_rdv, date_demande)

AnnulerPersonnel ==
    /\ last = Repos
    /\ UNCHANGED <<app, gestion>>
    /\ \E id_rdv \in IdsRdv, personnel \in Personnels :
          AnnulerParPersonnel(id_rdv, personnel)

ModifierDate ==
    /\ last = Repos
    /\ UNCHANGED <<app, gestion>>
    /\ \E id_rdv \in IdsRdv, nouvelle_date \in Creneaux :
          ModifierDateRendezVous(id_rdv, nouvelle_date)

Realiser ==
    /\ last = Repos
    /\ UNCHANGED <<app, gestion>>
    /\ \E id_rdv \in IdsRdv :
          RealiserRendezVous(id_rdv)

Disponibilite ==
    /\ last = Repos
    /\ UNCHANGED <<app, gestion>>
    /\ \E personnel \in DOMAIN personnels, centre \in Centres :
          DefinirDisponibilite(personnel, centre)

Next ==
    \/ Creer
    \/ AnnulerPatient
    \/ AnnulerPersonnel
    \/ ModifierDate
    \/ Realiser
    \/ Disponibilite
    \/ Retour

Spec == Init /\ [][Next]_vars

---------------------------------------------------------------------------
(* Transfers, capacity and acts built outside an appointment *)

\* a call that names a patient
AppelPatient(op, patient, date, centre, err) ==
    [op |-> op, id |-> 0, date |-> date, personnel |-> Aucun, centre |-> centre,
     err |-> err, ret |-> <<>>, patient |-> patient]

\* a call that names an act type
AppelType(op, type_acte, date, centre, err, ret) ==
    [op |-> op, id |-> 0, date |-> date, personnel |-> Aucun, centre |-> centre,
     err |-> err, ret |-> ret, type_acte |-> type_acte]

\* variant: the reference centre of the record is left as it is
EnregistrerTransfertSansReference(dossier, ancien_centre, nouveau_centre, date_transfert) ==
    [dossier EXCEPT !.transferts =
        Append(@, [date_transfert |-> date_transfert, ancien_centre |-> ancien_centre,
                   nouveau_centre |-> nouveau_centre])]

\* DossierMedical.enregistrer_transfert
EnregistrerTransfert(dossier, ancien_centre, nouveau_centre, date_transfert) ==
    [dossier EXCEPT !.transferts =
        Append(@, [date_transfert |-> date_transfert, ancien_centre |-> ancien_centre,
                   nouveau_centre |-> nouveau_centre]),
                    !.centre_reference = nouveau_centre]

\* the checks of Patient.transferer_dossier; every patient owns a record
TransfererDossierErreur(patient, nouveau_centre) ==
    IF nouveau_centre = patients[patient].centre_actuel THEN "transfert_inutile"
    ELSE "ok"

\* variant: a transfer to the current centre is accepted
TransfererErreurSansCourant(patient, nouveau_centre) ==
    VerifierCentreExistant(nouveau_centre)

\* the outcome of ReseauHospitalier.transferer_patient
TransfererErreur(patient, nouveau_centre) ==
    IF VerifierCentreExistant(nouveau_centre) # "ok"
    THEN VerifierCentreExistant(nouveau_centre)
    ELSE TransfererDossierErreur(patient, nouveau_centre)

\* variant: the transfer is recorded and the patient's current centre is kept
TransfererPatientSansCentreActuel(patient, nouveau_centre, date_transfert) ==
    LET err == TransfererErreur(patient, nouveau_centre)
    IN  /\ last' = AppelPatient("transferer", patient, date_transfert, nouveau_centre, err)
        /\ patients' =
             IF err = "ok"
             THEN [patients EXCEPT
                     ![patient].dossier_medical =
                         EnregistrerTransfert(@, patients[patient].centre_actuel,
                                              nouveau_centre, date_transfert)]
             ELSE patients
        /\ UNCHANGED <<reseau, personnels, centres>>

\* variant: the patient's appointments that are Planifie follow the patient to
\* the new centre
TransfererPatientAvecRendezVous(patient, nouveau_centre, date_transfert) ==
    LET err == TransfererErreur(patient, nouveau_centre)
    IN  /\ last' = AppelPatient("transferer", patient, date_transfert, nouveau_centre, err)
        /\ patients' =
             IF err = "ok"
             THEN [patients EXCEPT
                     ![patient].dossier_medical =
                         EnregistrerTransfert(@, patients[patient].centre_actuel,
                                              nouveau_centre, date_transfert),
                     ![patient].centre_actuel = nouveau_centre]
             ELSE patients
        /\ reseau' =
             IF err = "ok"
             THEN [reseau EXCEPT !.rendez_vous =
                     [i \in DOMAIN @ |->
                        IF @[i].patient = patient /\ @[i].statut = PLANIFIE
                        THEN [@[i] EXCEPT !.centre = nouveau_centre]
                        ELSE @[i]]]
             ELSE reseau
        /\ UNCHANGED <<personnels, centres>>

\* ReseauHospitalier.transferer_patient
TransfererPatient(patient, nouveau_centre, date_transfert) ==
    LET err == TransfererErreur(patient, nouveau_centre)
    IN  /\ last' = AppelPatient("transferer", patient, date_transfert, nouveau_centre, err)
        /\ patients' =
             IF err = "ok"
             THEN [patients EXCEPT
                     ![patient].dossier_medical =
                         EnregistrerTransfert(@, patients[patient].centre_actuel,
                                              nouveau_centre, date_transfert),
                     ![patient].centre_actuel = nouveau_centre]
             ELSE patients
        /\ UNCHANGED <<reseau, personnels, centres>>

\* the transfers of all the records
NombreTransferts(etat) ==
    LET n(p) == IF p \in DOMAIN etat THEN Len(etat[p].dossier_medical.transferts) ELSE 0
    IN  n("p1") + n("p2")

Transferer ==
    /\ last = Repos
    /\ UNCHANGED <<app, gestion>>
    /\ \E patient \in DOMAIN patients, nouveau_centre \in Centres,
          date_transfert \in DatesTransfert :
          /\ NombreTransferts(patients) < MaxTransferts
          /\ TransfererPatient(patient, nouveau_centre, date_transfert)

\* personnels_occupes_ids of _personnels_disponibles_par_type
PersonnelsOccupes(date_heure) ==
    UNION {Elements(reseau.rendez_vous[i].personnels) :
              i \in {j \in DOMAIN reseau.rendez_vous :
                        /\ reseau.rendez_vous[j].statut = PLANIFIE
                        /\ reseau.rendez_vous[j].date_heure = date_heure}}

\* variant: the roster is filtered on the busy staff only
CandidatsSansDisponibilite(date_heure, centre) ==
    SelectSeq(centres[centre].personnels,
              LAMBDA x : x \notin PersonnelsOccupes(date_heure))

\* candidats of _personnels_disponibles_par_type: the roster, filtered
Candidats(date_heure, centre) ==
    SelectSeq(centres[centre].personnels,
              LAMBDA x : EstDisponibleDans(x, centre) /\ x \notin PersonnelsOccupes(date_heure))

\* sum(1 for personnel in candidats if isinstance(personnel, classe))
Compte(candidats, classe) ==
    Len(SelectSeq(candidats, LAMBDA x : Classe[x] = classe))

\* variant: only the appointments of the centre make a staff member busy
PersonnelsDisponiblesParTypeDuCentre(date_heure, centre) ==
    LET occupes == UNION {Elements(reseau.rendez_vous[i].personnels) :
                             i \in {j \in DOMAIN reseau.rendez_vous :
                                       /\ reseau.rendez_vous[j].statut = PLANIFIE
                                       /\ reseau.rendez_vous[j].date_heure = date_heure
                                       /\ reseau.rendez_vous[j].centre = centre}}
        candidats == SelectSeq(centres[centre].personnels,
                               LAMBDA x : EstDisponibleDans(x, centre) /\ x \notin occupes)
    IN  [medecin |-> Compte(candidats, "Medecin"),
         infirmier |-> Compte(candidats, "Infirmier"),
         chirurgien |-> Compte(candidats, "Chirurgien")]

\* ReseauHospitalier._personnels_disponibles_par_type
PersonnelsDisponiblesParType(date_heure, centre) ==
    [medecin |-> Compte(Candidats(date_heure, centre), "Medecin"),
     infirmier |-> Compte(Candidats(date_heure, centre), "Infirmier"),
     chirurgien |-> Compte(Candidats(date_heure, centre), "Chirurgien")]

Min(a, b) == IF a <= b THEN a ELSE b

\* the value ReseauHospitalier.nombre_rendez_vous_disponibles returns from the counts
NombreParType(disponibles, type_acte) ==
    IF type_acte = "Consultation" THEN disponibles.medecin
    ELSE IF type_acte = "Soin" THEN disponibles.infirmier
    ELSE Min(disponibles.chirurgien, disponibles.infirmier)

\* ReseauHospitalier.nombre_rendez_vous_disponibles
NombreRendezVousDisponibles(date_heure, centre, type_acte) ==
    LET err == VerifierCentreExistant(centre)
    IN  /\ last' = AppelType("nombre", type_acte, date_heure, centre, err,
                             IF err = "ok"
                             THEN <<NombreParType(PersonnelsDisponiblesParType(date_heure, centre),
                                                  type_acte)>>
                             ELSE <<>>)
        /\ UNCHANGED <<reseau, patients, personnels, centres>>

Nombre ==
    /\ last = Repos
    /\ UNCHANGED <<app, gestion>>
    /\ \E date_heure \in Creneaux, centre \in Centres, type_acte \in TypeActeMedical :
          NombreRendezVousDisponibles(date_heure, centre, type_acte)

\* Consultation(...), Soin(...) or InterventionChirurgicale(...) called by a
\* client of the module: the dataclass constructor and ActeMedical.__post_init__
NouvelActe(type_acte, date_acte, patient, centre, pers) ==
    LET acte == [type_acte |-> type_acte, date_acte |-> date_acte, patient |-> patient,
                 centre |-> centre, personnels |-> pers, est_realise |-> FALSE]
        err == ActePostInit(acte)
    IN  /\ last' = AppelType("construire_acte", type_acte, date_acte, centre, err,
                             IF err = "ok" THEN <<acte>> ELSE <<>>)
        /\ UNCHANGED <<reseau, patients, personnels, centres>>

\* the acts a client builds are dated at the first slot, at the patient's centre
Construire ==
    /\ last = Repos
    /\ UNCHANGED <<app, gestion>>
    /\ \E type_acte \in TypeActeMedical, patient \in DOMAIN patients,
          pers \in ListesPersonnels :
          NouvelActe(type_acte, 25, patient, patients[patient].centre_actuel, pers)

\* the acts of all the records
NombreActes(etat) ==
    Len(etat["p1"].dossier_medical.actes) + Len(etat["p2"].dossier_medical.actes)

\* variant: the act is recorded and its flag is left as it is
ActeRealiserSansMarque ==
    /\ UNCHANGED <<app, gestion>>
    /\ last.op \in {"construire_acte", "realiser_acte", "realiser"}
    /\ last.ret # <<>>
    /\ LET acte == last.ret[1]
           err == ActeRealiserErreur(acte)
       IN  /\ err = "ok" => NombreActes(patients) < MaxActes
           /\ last' = AppelType("realiser_acte", acte.type_acte, acte.date_acte,
                                acte.centre, err, <<acte>>)
           /\ patients' = IF err = "ok"
                          THEN [patients EXCEPT
                                  ![acte.patient].dossier_medical.actes = Append(@, acte)]
                          ELSE patients
           /\ UNCHANGED <<reseau, personnels, centres>>

\* ActeMedical.realiser, called on the act the last call returned
ActeRealiser ==
    /\ UNCHANGED <<app, gestion>>
    /\ last.op \in {"construire_acte", "realiser_acte", "realiser"}
    /\ last.ret # <<>>
    /\ LET acte == last.ret[1]
           err == ActeRealiserErreur(acte)
           fait == [acte EXCEPT !.est_realise = TRUE]
       IN  /\ err = "ok" => NombreActes(patients) < MaxActes
           /\ last' = AppelType("realiser_acte", acte.type_acte, acte.date_acte,
                                acte.centre, err, IF err = "ok" THEN <<fait>> ELSE <<acte>>)
           /\ patients' = IF err = "ok"
                          THEN [patients EXCEPT
                                  ![acte.patient].dossier_medical.actes = Append(@, fait)]
                          ELSE patients
           /\ UNCHANGED <<reseau, personnels, centres>>

\* one appointment identifier
CreerUnique ==
    /\ last = Repos
    /\ UNCHANGED <<app, gestion>>
    /\ \E id_rdv \in IdsRdvUnique, date_heure \in Creneaux, patient \in DOMAIN patients,
          centre \in Centres, type_acte \in TypeActeMedical, pers \in ListesPersonnels :
          CreerRendezVous(id_rdv, date_heure, patient, centre, type_acte, pers)

\* the staff attached as in Init, one of them with no availability defined yet
InitReseau ==
    /\ reseau = [centres |-> <<"cV", "cR">>, rendez_vous |-> <<>>]
    /\ centres = [c \in Centres |->
                    [ville |-> VilleDe[c],
                     personnels |-> CASE c = "cV" -> <<"m1", "m2", "ch1", "i1">>
                                      [] c = "cR" -> <<"m1">>
                                      [] OTHER -> <<>>]]
    /\ personnels = [s \in Personnels |->
                    [centres_rattaches |-> IF s = "m1" THEN <<"cV", "cR">> ELSE <<"cV">>,
                     centre_disponible |-> IF s = "m2" THEN Aucun ELSE "cV"]]
    /\ patients = [p \in Patients |->
                    [ville_residence |-> IF p = "p1" THEN "Versailles" ELSE "Rouen",
                     region_residence |-> IF p = "p1" THEN "IDF" ELSE "Normandie",
                     centre_actuel |-> IF p = "p1" THEN "cV" ELSE "cR",
                     rendez_vous |-> <<>>,
                     dossier_medical |->
                         [centre_reference |-> IF p = "p1" THEN "cV" ELSE "cR",
                          actes |-> <<>>,
                          transferts |-> <<>>]]]
    /\ app = AppInitiale
    /\ gestion = GestionInitiale
    /\ last = Repos

\* every operation of the network, one appointment identifier
NextReseau ==
    \/ CreerUnique
    \/ AnnulerPatient
    \/ AnnulerPersonnel
    \/ ModifierDate
    \/ Realiser
    \/ Disponibilite
    \/ Transferer
    \/ Nombre
    \/ Retour

SpecReseau == InitReseau /\ [][NextReseau]_vars

\* appointments and the acts a client builds itself
NextActe ==
    \/ CreerUnique
    \/ Realiser
    \/ Construire
    \/ ActeRealiser
    \/ Retour

SpecActe == InitReseau /\ [][NextActe]_vars

---------------------------------------------------------------------------
(* Geography and the construction of patients *)

\* a city that no department lists at first
VilleNouvelle == "Caen"

\* a Departement built with no city, that no region lists at first
DepartementNouveau == "d14"

\* a call that names a department, a region or a city
AppelGeographie(op, nom, ville, region, err) ==
    [op |-> op, id |-> 0, date |-> 0, personnel |-> Aucun, centre |-> Aucun,
     err |-> err, ret |-> <<>>, nom |-> nom, ville |-> ville, region |-> region]

\* Departement.ajouter_ville
AjouterVille(departement, ville) ==
    /\ app' = [app EXCEPT !.departements[departement] =
                  IF ville \in Elements(@) THEN @ ELSE Append(@, ville)]
    /\ UNCHANGED gestion
    /\ last' = AppelGeographie("ajouter_ville", departement, ville, Aucun, "ok")
    /\ UNCHANGED <<reseau, patients, personnels, centres>>

\* Region.ajouter_departement
AjouterDepartement(region, departement) ==
    /\ app' = [app EXCEPT !.regions[region] =
                  IF departement \in Elements(@) THEN @ ELSE Append(@, departement)]
    /\ UNCHANGED gestion
    /\ last' = AppelGeographie("ajouter_departement", departement, Aucun, region, "ok")
    /\ UNCHANGED <<reseau, patients, personnels, centres>>

\* variant: the residence is not checked
PatientPostInitSansControle(ville, region) == "ok"

\* the check of Patient.__post_init__
PatientPostInit(ville, region) ==
    IF ~ RegionContientVille(region, ville) THEN "residence" ELSE "ok"

\* Patient(...): the dataclass constructor and Patient.__post_init__, which
\* opens the record at the current centre
NouveauPatient(nss, ville, region, centre) ==
    LET err == PatientPostInit(ville, region)
        patient == [ville_residence |-> ville, region_residence |-> region,
                    centre_actuel |-> centre, rendez_vous |-> <<>>,
                    dossier_medical |-> [centre_reference |-> centre, actes |-> <<>>,
                                         transferts |-> <<>>]]
    IN  /\ last' = AppelGeographie("nouveau_patient", nss, ville, region, err)
        /\ patients' = IF err = "ok"
                       THEN [p \in DOMAIN patients \cup {nss} |->
                               IF p = nss THEN patient ELSE patients[p]]
                       ELSE patients
        /\ UNCHANGED <<reseau, personnels, centres, app, gestion>>

\* a city is added to the new department or to the department of Rouen
AjoutVille ==
    /\ last = Repos
    /\ \E departement \in {DepartementNouveau, "d76"} :
          AjouterVille(departement, VilleNouvelle)

\* the new department or the department of Rouen is added to a region
AjoutDepartement ==
    /\ last = Repos
    /\ \E region \in DOMAIN app.regions, departement \in {DepartementNouveau, "d76"} :
          AjouterDepartement(region, departement)

\* a patient that does not exist yet is built, at the first centre
Inscrire ==
    /\ last = Repos
    /\ \E nss \in Patients \ DOMAIN patients,
          ville \in {"Versailles", "Rouen", VilleNouvelle}, region \in DOMAIN app.regions :
          NouveauPatient(nss, ville, region, "cV")

\* the first patient of _demo exists, the new department is built
InitPatients ==
    /\ reseau = [centres |-> <<"cV", "cR">>, rendez_vous |-> <<>>]
    /\ centres = [c \in Centres |->
                    [ville |-> VilleDe[c],
                     personnels |-> CASE c = "cV" -> <<"m1", "m2", "ch1", "i1">>
                                      [] c = "cR" -> <<"m1">>
                                      [] OTHER -> <<>>]]
    /\ personnels = [s \in Personnels |->
                    [centres_rattaches |-> IF s = "m1" THEN <<"cV", "cR">> ELSE <<"cV">>,
                     centre_disponible |-> IF s = "m2" THEN Aucun ELSE "cV"]]
    /\ patients = [p \in {"p1"} |->
                    [ville_residence |-> "Versailles",
                     region_residence |-> "IDF",
                     centre_actuel |-> "cV",
                     rendez_vous |-> <<>>,
                     dossier_medical |->
                         [centre_reference |-> "cV", actes |-> <<>>, transferts |-> <<>>]]]
    /\ app = [AppInitiale EXCEPT !.departements =
                 [d \in DOMAIN Departements \cup {DepartementNouveau} |->
                    IF d = DepartementNouveau THEN <<>> ELSE Departements[d]]]
    /\ gestion = GestionInitiale
    /\ last = Repos

\* a consultation with the first physician, under the one identifier
CreerConsultation ==
    /\ last = Repos
    /\ UNCHANGED <<app, gestion>>
    /\ \E id_rdv \in IdsRdvUnique, patient \in DOMAIN patients, centre \in Centres :
          CreerRendezVous(id_rdv, 25, patient, centre, "Consultation", <<"m1">>)

\* a transfer at the first date
TransfererPremiereDate ==
    /\ last = Repos
    /\ UNCHANGED <<app, gestion>>
    /\ \E patient \in DOMAIN patients, nouveau_centre \in Centres :
          /\ NombreTransferts(patients) < MaxTransferts
          /\ TransfererPatient(patient, nouveau_centre, 3)

\* geography, patients, transfers and one appointment
NextPatients ==
    \/ AjoutVille
    \/ AjoutDepartement
    \/ Inscrire
    \/ TransfererPremiereDate
    \/ CreerConsultation
    \/ Realiser
    \/ Retour

SpecPatients == InitPatients /\ [][NextPatients]_vars

---------------------------------------------------------------------------
(* Attachment of staff to centres, and the host's form that adds a staff member *)

\* the longest list of centre names the form is given
MaxCentresSaisis == 2

\* variant: the centre's roster is left as it is
RattacherACentreSansRegistre(personnel, centre) ==
    /\ personnels' = [personnels EXCEPT ![personnel].centres_rattaches =
                         IF centre \in Elements(@) THEN @ ELSE Append(@, centre)]
    /\ last' = Appel("rattacher_a_centre", 0, 0, personnel, centre, "ok", <<>>)
    /\ UNCHANGED <<reseau, patients, centres>>

\* PersonnelMedical.rattacher_a_centre
RattacherACentre(personnel, centre) ==
    /\ personnels' = [personnels EXCEPT ![personnel].centres_rattaches =
                         IF centre \in Elements(@) THEN @ ELSE Append(@, centre)]
    /\ centres' = [centres EXCEPT ![centre].personnels =
                      IF personnel \in Elements(@) THEN @ ELSE Append(@, personnel)]
    /\ last' = Appel("rattacher_a_centre", 0, 0, personnel, centre, "ok", <<>>)
    /\ UNCHANGED <<reseau, patients>>

\* CentreHospitalier.ajouter_personnel
AjouterPersonnel(centre, personnel) ==
    /\ centres' = [centres EXCEPT ![centre].personnels =
                      IF personnel \in Elements(@) THEN @ ELSE Append(@, personnel)]
    /\ personnels' = [personnels EXCEPT ![personnel].centres_rattaches =
                         IF centre \in Elements(@) THEN @ ELSE Append(@, centre)]
    /\ last' = Appel("ajouter_personnel", 0, 0, personnel, centre, "ok", <<>>)
    /\ UNCHANGED <<reseau, patients>>

\* the staff members that are attached to further centres
PersonnelsMobiles == {"i1", "m2"}

Rattacher ==
    /\ last = Repos
    /\ UNCHANGED <<app, gestion>>
    /\ \E personnel \in DOMAIN personnels \cap PersonnelsMobiles,
          centre \in Elements(reseau.centres) :
          RattacherACentre(personnel, centre)

Ajouter ==
    /\ last = Repos
    /\ UNCHANGED <<app, gestion>>
    /\ \E centre \in Elements(reseau.centres),
          personnel \in DOMAIN personnels \cap PersonnelsMobiles :
          AjouterPersonnel(centre, personnel)

\* the keys of the host's dictionary of centres: _on_add_center adds a centre to
\* the dictionary and to the network together
CentresConnus == Elements(reseau.centres)

\* the names the loop of _on_add_staff handles before it raises or ends
RECURSIVE NomsTraites(_)
NomsTraites(center_names) ==
    IF center_names = <<>> \/ Head(center_names) \notin CentresConnus THEN <<>>
    ELSE <<Head(center_names)>> \o NomsTraites(Tail(center_names))

\* the list rattacher_a_centre builds from the names handled, in order
RECURSIVE SansDoublons(_)
SansDoublons(noms) ==
    IF noms = <<>> THEN <<>>
    ELSE LET debut == SansDoublons(SubSeq(noms, 1, Len(noms) - 1))
             dernier == noms[Len(noms)]
         IN  IF dernier \in Elements(debut) THEN debut ELSE Append(debut, dernier)

\* the centre definir_disponibilite is called with, if any
CentreActif(center_names, active_center) ==
    IF active_center # Aucun THEN active_center
    ELSE IF center_names # <<>> THEN center_names[1]
    ELSE Aucun

\* the outcome of the action of _on_add_staff
OnAddStaffErreur(email, center_names, active_center) ==
    IF email \in app.personnels THEN "existe"
    ELSE IF \E i \in DOMAIN center_names : center_names[i] \notin CentresConnus
    THEN "centre_inconnu"
    ELSE IF active_center # Aucun /\ active_center \notin CentresConnus THEN "exception"
    ELSE IF active_center # Aucun /\ active_center \notin Elements(center_names)
    THEN "non_rattache"
    ELSE "ok"

\* AppNiveau4._on_add_staff: the staff member is built, attached to the centres
\* named one after the other, made available, then put in the directory
OnAddStaff(email, center_names, active_center) ==
    LET err == OnAddStaffErreur(email, center_names, active_center)
        rattaches == SansDoublons(NomsTraites(center_names))
        staff == [centres_rattaches |-> rattaches,
                  centre_disponible |->
                      IF err = "ok" THEN CentreActif(center_names, active_center)
                      ELSE Aucun]
        construit == err # "existe" /\ (err = "ok" \/ rattaches # <<>>)
    IN  /\ last' = Appel("on_add_staff", 0, 0, email, active_center, err, <<>>)
        /\ personnels' = IF construit
                         THEN [x \in DOMAIN personnels \cup {email} |->
                                 IF x = email THEN staff ELSE personnels[x]]
                         ELSE personnels
        /\ centres' = IF err = "existe" THEN centres
                      ELSE [c \in Centres |->
                              IF c \in Elements(rattaches)
                              THEN [centres[c] EXCEPT !.personnels = Append(@, email)]
                              ELSE centres[c]]
        /\ app' = IF err = "ok" THEN [app EXCEPT !.personnels = @ \cup {email}] ELSE app
        /\ UNCHANGED gestion
        /\ UNCHANGED <<reseau, patients>>

\* the form is submitted; an e-mail that is not in the directory names a staff
\* member that no earlier submission has built
AjoutPersonnel ==
    /\ last = Repos
    /\ \E email \in {"m1", "m2"}, center_names \in SeqsJusqua(Centres, MaxCentresSaisis),
          active_center \in Centres \cup {Aucun} :
          /\ email \notin app.personnels => email \notin DOMAIN personnels
          /\ OnAddStaff(email, center_names, active_center)

\* the staff of _demo but the second physician, whom the form can add
InitPersonnel ==
    /\ reseau = [centres |-> <<"cV", "cR">>, rendez_vous |-> <<>>]
    /\ centres = [c \in Centres |->
                    [ville |-> VilleDe[c],
                     personnels |-> CASE c = "cV" -> <<"m1", "ch1", "i1">>
                                      [] c = "cR" -> <<"m1">>
                                      [] OTHER -> <<>>]]
    /\ personnels = [s \in Personnels \ {"m2"} |->
                    [centres_rattaches |-> IF s = "m1" THEN <<"cV", "cR">> ELSE <<"cV">>,
                     centre_disponible |-> IF s = "i1" THEN Aucun ELSE "cV"]]
    /\ patients = [p \in Patients |->
                    [ville_residence |-> IF p = "p1" THEN "Versailles" ELSE "Rouen",
                     region_residence |-> IF p = "p1" THEN "IDF" ELSE "Normandie",
                     centre_actuel |-> IF p = "p1" THEN "cV" ELSE "cR",
                     rendez_vous |-> <<>>,
                     dossier_medical |->
                         [centre_reference |-> IF p = "p1" THEN "cV" ELSE "cR",
                          actes |-> <<>>,
                          transferts |-> <<>>]]]
    /\ app = [AppInitiale EXCEPT !.personnels = Personnels \ {"m2"}]
    /\ gestion = GestionInitiale
    /\ last = Repos

\* attachments, availability and the host's form
NextPersonnel ==
    \/ Rattacher
    \/ Ajouter
    \/ Disponibilite
    \/ AjoutPersonnel
    \/ Retour

SpecPersonnel == InitPersonnel /\ [][NextPersonnel]_vars

---------------------------------------------------------------------------
(* Every operation that reaches an appointment or its staff, two identifiers *)

\* the physicians, whose consultations share or do not share a staff member
Medecins == {"m1", "m2"}

\* a consultation with one physician, at a registered centre
CreerConsultationMedecin ==
    /\ last = Repos
    /\ UNCHANGED <<app, gestion>>
    /\ \E id_rdv \in IdsRdv, date_heure \in Creneaux, patient \in DOMAIN patients,
          centre \in CentresConnus, medecin \in Medecins :
          CreerRendezVous(id_rdv, date_heure, patient, centre, "Consultation", <<medecin>>)

\* a cancellation by the patient, asked at the first date
AnnulerPatientPremiereDate ==
    /\ last = Repos
    /\ UNCHANGED <<app, gestion>>
    /\ \E id_rdv \in IdsRdv :
          AnnulerParPatient(id_rdv, 1)

\* a cancellation by the first physician
AnnulerPremierMedecin ==
    /\ last = Repos
    /\ UNCHANGED <<app, gestion>>
    /\ \E id_rdv \in IdsRdv :
          AnnulerParPersonnel(id_rdv, "m1")

\* a physician is made available at a registered centre
DisponibiliteMedecin ==
    /\ last = Repos
    /\ UNCHANGED <<app, gestion>>
    /\ \E personnel \in Medecins, centre \in CentresConnus :
          DefinirDisponibilite(personnel, centre)

\* the second physician is attached to the centre of Rouen
RattacherMedecin ==
    /\ last = Repos
    /\ UNCHANGED <<app, gestion>>
    /\ RattacherACentre("m2", "cR")

NextEnsemble ==
    \/ CreerConsultationMedecin
    \/ AnnulerPatientPremiereDate
    \/ AnnulerPremierMedecin
    \/ ModifierDate
    \/ Realiser
    \/ DisponibiliteMedecin
    \/ TransfererPremiereDate
    \/ RattacherMedecin
    \/ Retour

SpecEnsemble == InitReseau /\ [][NextEnsemble]_vars

---------------------------------------------------------------------------
(* The host's event loop: button events wait in a queue and mainloop runs the
   callback of the first, to its end, before it takes the next *)

\* the most events that wait or run at a time
MaxEnCours == 2

\* the requests of the events: consultations for the first patient at
\* Versailles with one physician, moves, and cancellations by the first physician
RequetesEnCours ==
    {[op |-> "creer", id |-> id_rdv, date |-> date_heure, patient |-> "p1",
      centre |-> "cV", type_acte |-> "Consultation", personnels |-> <<medecin>>,
      etape |-> "attente", err |-> "ok"] :
        id_rdv \in IdsRdv, date_heure \in Creneaux, medecin \in Medecins}
    \cup
    {[op |-> "modifier_date", id |-> id_rdv, date |-> date_heure, patient |-> Aucun,
      centre |-> Aucun, type_acte |-> Aucun, personnels |-> <<>>,
      etape |-> "attente", err |-> "ok"] :
        id_rdv \in IdsRdv, date_heure \in Creneaux}
    \cup
    {[op |-> "annuler_par_personnel", id |-> id_rdv, date |-> 0, patient |-> Aucun,
      centre |-> Aucun, type_acte |-> Aucun, personnels |-> <<"m1">>,
      etape |-> "attente", err |-> "ok"] :
        id_rdv \in IdsRdv}

\* the checks of the call a callback makes: the lines of creer_rendez_vous,
\* modifier_date_rendez_vous and annuler_par_personnel that read
ErreurRequete(r) ==
    IF r.op = "creer"
    THEN CreerErreur(r.id, r.date, r.patient, r.centre, r.type_acte, r.personnels)
    ELSE IF r.id \notin IdsEnregistres THEN "introuvable"
    ELSE IF r.op = "modifier_date"
    THEN ModifierDateErreur(ObtenirRendezVous(r.id), r.date)
    ELSE AnnulerParPersonnelErreur(ObtenirRendezVous(r.id), r.personnels[1])

\* self.rendez_vous[id_rdv] = rdv
EcrireRendezVous(rdv) ==
    IF rdv.id_rendez_vous \in IdsEnregistres
    THEN [reseau EXCEPT !.rendez_vous[IndexDe(rdv.id_rendez_vous)] = rdv]
    ELSE [reseau EXCEPT !.rendez_vous = Append(@, rdv)]

\* a button is pressed: its event joins the queue
Soumettre ==
    /\ last = Repos
    /\ Len(app.en_cours) < MaxEnCours
    /\ \E r \in RequetesEnCours :
          app' = [app EXCEPT !.en_cours = Append(@, r)]
    /\ UNCHANGED <<reseau, patients, personnels, centres, gestion, last>>

\* variant: the callback of an event starts while another callback runs
DemarrerSansAttendre(k) ==
    /\ app.en_cours[k].etape = "attente"
    /\ app' = [app EXCEPT !.en_cours[k].etape = "verifie",
                          !.en_cours[k].err = ErreurRequete(app.en_cours[k])]
    /\ UNCHANGED gestion
    /\ UNCHANGED <<reseau, patients, personnels, centres, last>>

\* mainloop takes the first event when no callback runs; the callback runs the
\* checks of its call
Demarrer(k) ==
    /\ k = 1
    /\ \A j \in DOMAIN app.en_cours : app.en_cours[j].etape = "attente"
    /\ app' = [app EXCEPT !.en_cours[k].etape = "verifie",
                          !.en_cours[k].err = ErreurRequete(app.en_cours[k])]
    /\ UNCHANGED gestion
    /\ UNCHANGED <<reseau, patients, personnels, centres, last>>

\* the callback ends: the call writes when its checks have passed, or raises,
\* and _execute reports
Terminer(k) ==
    LET r == app.en_cours[k]
        rdv == [id_rendez_vous |-> r.id, date_heure |-> r.date, patient |-> r.patient,
                centre |-> r.centre, type_acte |-> r.type_acte,
                personnels |-> r.personnels, statut |-> PLANIFIE]
    IN  /\ r.etape = "verifie"
        /\ app' = [app EXCEPT !.en_cours =
                      SubSeq(@, 1, k - 1) \o SubSeq(@, k + 1, Len(@))]
        /\ UNCHANGED gestion
        /\ last' = Appel(r.op, r.id, r.date, Aucun, Aucun, r.err,
                         IF r.op = "creer" /\ r.err = "ok" THEN <<rdv>> ELSE <<>>)
        /\ reseau' = IF r.err # "ok" THEN reseau
                     ELSE IF r.op = "creer" THEN EcrireRendezVous(rdv)
                     ELSE IF r.op = "modifier_date"
                     THEN [reseau EXCEPT !.rendez_vous[IndexDe(r.id)].date_heure = r.date]
                     ELSE AvecStatut(r.id, ANNULE)
        /\ patients' = IF r.err = "ok" /\ r.op = "creer"
                       THEN [patients EXCEPT ![r.patient].rendez_vous = Append(@, r.id)]
                       ELSE patients
        /\ UNCHANGED <<personnels, centres>>

Debut ==
    /\ last = Repos
    /\ \E k \in DOMAIN app.en_cours : Demarrer(k)

Fin ==
    /\ last = Repos
    /\ \E k \in DOMAIN app.en_cours : Terminer(k)

NextEnCours ==
    \/ Soumettre
    \/ Debut
    \/ Fin
    \/ Retour

SpecEnCours == Init /\ [][NextEnCours]_vars

---------------------------------------------------------------------------
(* The acts of the three modules that define them *)

\* hopital_niveau1, hopital_niveau2, hopital_niveau3
Niveaux == {1, 2, 3}

\* variant: the rule of the later modules
VerifierHabilitationNiveau1Mixte(acte) ==
    VerifierHabilitation(acte)

\* niveau1: Consultation / Soin / InterventionChirurgicale .verifier_habilitation
VerifierHabilitationNiveau1(acte) ==
    IF acte.type_acte = "Consultation"
    THEN IF Len(acte.personnels) # 1 \/ Classe[acte.personnels[1]] # "Medecin"
         THEN "habilitation" ELSE "ok"
    ELSE IF acte.type_acte = "Soin"
    THEN IF Len(acte.personnels) # 1 \/ Classe[acte.personnels[1]] # "Infirmier"
         THEN "habilitation" ELSE "ok"
    ELSE IF \E i \in DOMAIN acte.personnels : Classe[acte.personnels[i]] # "Chirurgien"
    THEN "habilitation"
    ELSE "ok"

\* niveau2: Consultation / Soin / InterventionChirurgicale .verifier_habilitation
VerifierHabilitationNiveau2(acte) ==
    IF acte.type_acte = "Consultation"
    THEN IF Len(acte.personnels) # 1 \/ Classe[acte.personnels[1]] # "Medecin"
         THEN "habilitation" ELSE "ok"
    ELSE IF acte.type_acte = "Soin"
    THEN IF Len(acte.personnels) # 1 \/ Classe[acte.personnels[1]] # "Infirmier"
         THEN "habilitation" ELSE "ok"
    ELSE IF \E i \in DOMAIN acte.personnels :
                Classe[acte.personnels[i]] \notin {"Chirurgien", "Infirmier"}
    THEN "habilitation"
    ELSE IF ~ (  (\E i \in DOMAIN acte.personnels : Classe[acte.personnels[i]] = "Chirurgien")
              /\ (\E i \in DOMAIN acte.personnels : Classe[acte.personnels[i]] = "Infirmier"))
    THEN "habilitation"
    ELSE "ok"

\* ActeMedical.realiser of the act's module: the checks
ActeRealiserErreurNiveau(acte) ==
    IF acte.est_realise THEN "deja_realise"
    ELSE IF acte.niveau = 1 THEN VerifierHabilitationNiveau1(acte)
    ELSE IF acte.niveau = 2 THEN VerifierHabilitationNiveau2(acte)
    ELSE VerifierHabilitation(acte)

\* the constructor of an act of a module and ActeMedical.__post_init__
NouvelActeNiveau(niveau, type_acte, patient, pers) ==
    LET acte == [niveau |-> niveau, type_acte |-> type_acte, patient |-> patient,
                 personnels |-> pers, est_realise |-> FALSE]
        err == ActePostInit(acte)
    IN  /\ last' = AppelType("construire_acte_niveau", type_acte, 0, Aucun, err,
                             IF err = "ok" THEN <<acte>> ELSE <<>>)
        /\ UNCHANGED <<reseau, patients, personnels, centres, app, gestion>>

ConstruireNiveau ==
    /\ last = Repos
    /\ \E niveau \in Niveaux, type_acte \in TypeActeMedical, patient \in DOMAIN patients,
          pers \in ListesPersonnels :
          NouvelActeNiveau(niveau, type_acte, patient, pers)

\* ActeMedical.realiser of the act's module, called on the act the last call
\* returned
RealiserNiveau ==
    /\ last.op \in {"construire_acte_niveau", "realiser_acte_niveau"}
    /\ last.ret # <<>>
    /\ LET acte == last.ret[1]
           err == ActeRealiserErreurNiveau(acte)
           fait == [acte EXCEPT !.est_realise = TRUE]
       IN  /\ err = "ok" => NombreActes(patients) < MaxActes
           /\ last' = AppelType("realiser_acte_niveau", acte.type_acte, 0, Aucun, err,
                                IF err = "ok" THEN <<fait>> ELSE <<acte>>)
           /\ patients' = IF err = "ok"
                          THEN [patients EXCEPT
                                  ![acte.patient].dossier_medical.actes = Append(@, fait)]
                          ELSE patients
           /\ UNCHANGED <<reseau, personnels, centres, app, gestion>>

NextNiveaux ==
    \/ ConstruireNiveau
    \/ RealiserNiveau
    \/ Retour

SpecNiveaux == InitReseau /\ [][NextNiveaux]_vars

---------------------------------------------------------------------------
(* The single-hospital scheduler of niveau2 (GestionRendezVous), called beside
   the network on a configuration of one centre: each call is made on both *)

\* niveau2: the keys of the dict GestionRendezVous.rendez_vous
IdsEnregistresNiveau2 ==
    {gestion.rendez_vous[i].id_rendez_vous : i \in DOMAIN gestion.rendez_vous}

\* niveau2: the position of a registered id in the dict
IndexDeNiveau2(id_rdv) ==
    CHOOSE i \in DOMAIN gestion.rendez_vous : gestion.rendez_vous[i].id_rendez_vous = id_rdv

\* niveau2: GestionRendezVous._obtenir_rendez_vous, for a registered id
ObtenirRendezVousNiveau2(id_rdv) == gestion.rendez_vous[IndexDeNiveau2(id_rdv)]

\* variant: a staff member the hospital does not manage is accepted
VerifierPersonnelsConnusSansControle(pers) == "ok"

\* niveau2: GestionRendezVous._verifier_personnels_connus
VerifierPersonnelsConnus(pers) ==
    IF \E i \in DOMAIN pers : pers[i] \notin Elements(gestion.personnels_hopital)
    THEN "non_gere"
    ELSE "ok"

\* niveau2: RendezVous.__post_init__ and verifier_affectation_personnel
RendezVousPostInitNiveau2(type_acte, pers) ==
    IF pers = <<>> THEN "sans_personnel"
    ELSE IF type_acte = "Consultation"
    THEN IF Len(pers) # 1 \/ Classe[pers[1]] # "Medecin" THEN "affectation" ELSE "ok"
    ELSE IF type_acte = "Soin"
    THEN IF Len(pers) # 1 \/ Classe[pers[1]] # "Infirmier" THEN "affectation" ELSE "ok"
    ELSE IF \E i \in DOMAIN pers : Classe[pers[i]] \notin {"Chirurgien", "Infirmier"}
    THEN "affectation"
    ELSE IF ~ (  (\E i \in DOMAIN pers : Classe[pers[i]] = "Chirurgien")
              /\ (\E i \in DOMAIN pers : Classe[pers[i]] = "Infirmier"))
    THEN "affectation"
    ELSE "ok"

\* niveau2: GestionRendezVous._verifier_conflits; the first appointment of the
\* dict that is not skipped and conflicts decides the error, the patient test
\* coming first; exclure_id = 0 stands for None
VerifierConflitsNiveau2(patient, type_acte, pers, date_heure, exclure_id) ==
    LET rdvs == gestion.rendez_vous
        scanne(i) == /\ ~ (exclure_id # 0 /\ rdvs[i].id_rendez_vous = exclure_id)
                     /\ ~ (rdvs[i].statut # PLANIFIE \/ rdvs[i].date_heure # date_heure)
        conflit_patient(i) == rdvs[i].patient = patient /\ rdvs[i].type_acte # type_acte
        conflit_personnel(i) == \E k \in DOMAIN pers : pers[k] \in Elements(rdvs[i].personnels)
        fautifs == {i \in DOMAIN rdvs :
                       scanne(i) /\ (conflit_patient(i) \/ conflit_personnel(i))}
    IN  IF fautifs = {} THEN "ok"
        ELSE LET premier == CHOOSE i \in fautifs : \A j \in fautifs : i <= j
             IN  IF conflit_patient(premier) THEN "conflit_patient"
                 ELSE "conflit_personnel"

\* niveau2: the outcome of GestionRendezVous.creer_rendez_vous
CreerErreurNiveau2(id_rdv, date_heure, patient, type_acte, pers) ==
    IF id_rdv \in IdsEnregistresNiveau2 THEN "existe_deja"
    ELSE IF VerifierPersonnelsConnus(pers) # "ok" THEN VerifierPersonnelsConnus(pers)
    ELSE IF RendezVousPostInitNiveau2(type_acte, pers) # "ok"
    THEN RendezVousPostInitNiveau2(type_acte, pers)
    ELSE VerifierConflitsNiveau2(patient, type_acte, pers, date_heure, 0)

\* the outcome of a call on the scheduler of niveau2
DernierAppel(op, err, ret) == [op |-> op, err |-> err, ret |-> ret]

\* niveau2: GestionRendezVous.creer_rendez_vous
CreerRendezVousNiveau2(id_rdv, date_heure, patient, type_acte, pers) ==
    LET err == CreerErreurNiveau2(id_rdv, date_heure, patient, type_acte, pers)
        rdv == [id_rendez_vous |-> id_rdv, date_heure |-> date_heure,
                patient |-> patient, type_acte |-> type_acte,
                personnels |-> pers, statut |-> PLANIFIE]
    IN  gestion' = IF err = "ok"
                   THEN [gestion EXCEPT !.rendez_vous = Append(@, rdv),
                                        !.patients[patient].rendez_vous = Append(@, id_rdv),
                                        !.dernier = DernierAppel("creer", err, <<>>)]
                   ELSE [gestion EXCEPT !.dernier = DernierAppel("creer", err, <<>>)]

\* niveau2: RendezVous._verifier_planifie
VerifierPlanifieNiveau2(rdv) ==
    IF rdv.statut # PLANIFIE THEN "etat" ELSE "ok"

\* niveau2: the checks of RendezVous.annuler_par_patient
AnnulerParPatientErreurNiveau2(rdv, date_demande) ==
    IF VerifierPlanifieNiveau2(rdv) # "ok" THEN VerifierPlanifieNiveau2(rdv)
    ELSE IF rdv.date_heure - date_demande < DelaiAnnulation THEN "delai"
    ELSE "ok"

\* niveau2: the checks of RendezVous.annuler_par_personnel
AnnulerParPersonnelErreurNiveau2(rdv, personnel) ==
    IF VerifierPlanifieNiveau2(rdv) # "ok" THEN VerifierPlanifieNiveau2(rdv)
    ELSE IF personnel \notin Elements(rdv.personnels) THEN "non_affecte"
    ELSE "ok"

\* niveau2: the checks of GestionRendezVous.modifier_date_rendez_vous, for a
\* registered id
ModifierDateErreurNiveau2(rdv, nouvelle_date) ==
    IF VerifierPlanifieNiveau2(rdv) # "ok" THEN VerifierPlanifieNiveau2(rdv)
    ELSE VerifierConflitsNiveau2(rdv.patient, rdv.type_acte, rdv.personnels,
                                 nouvelle_date, rdv.id_rendez_vous)

\* niveau2: RendezVous._construire_acte
ConstruireActeNiveau2(rdv) ==
    [type_acte |-> rdv.type_acte, date_acte |-> rdv.date_heure, patient |-> rdv.patient,
     personnels |-> rdv.personnels, est_realise |-> FALSE]

\* niveau2: the checks of RendezVous.realiser: the status, ActeMedical.__post_init__
\* (every patient owns a record) and ActeMedical.realiser
RealiserErreurNiveau2(rdv) ==
    IF VerifierPlanifieNiveau2(rdv) # "ok" THEN VerifierPlanifieNiveau2(rdv)
    ELSE IF ConstruireActeNiveau2(rdv).personnels = <<>> THEN "sans_personnel"
    ELSE IF ConstruireActeNiveau2(rdv).est_realise THEN "deja_realise"
    ELSE VerifierHabilitationNiveau2(ConstruireActeNiveau2(rdv))

\* niveau2: GestionRendezVous.annuler_par_patient
AnnulerParPatientNiveau2(id_rdv, date_demande) ==
    LET err == IF id_rdv \notin IdsEnregistresNiveau2 THEN "introuvable"
               ELSE AnnulerParPatientErreurNiveau2(ObtenirRendezVousNiveau2(id_rdv),
                                                   date_demande)
    IN  gestion' = IF err = "ok"
                   THEN [gestion EXCEPT !.rendez_vous[IndexDeNiveau2(id_rdv)].statut = ANNULE,
                                        !.dernier = DernierAppel("annuler_par_patient", err, <<>>)]
                   ELSE [gestion EXCEPT
                           !.dernier = DernierAppel("annuler_par_patient", err, <<>>)]

\* niveau2: GestionRendezVous.annuler_par_personnel
AnnulerParPersonnelNiveau2(id_rdv, personnel) ==
    LET err == IF id_rdv \notin IdsEnregistresNiveau2 THEN "introuvable"
               ELSE AnnulerParPersonnelErreurNiveau2(ObtenirRendezVousNiveau2(id_rdv),
                                                     personnel)
    IN  gestion' = IF err = "ok"
                   THEN [gestion EXCEPT !.rendez_vous[IndexDeNiveau2(id_rdv)].statut = ANNULE,
                                        !.dernier = DernierAppel("annuler_par_personnel", err, <<>>)]
                   ELSE [gestion EXCEPT
                           !.dernier = DernierAppel("annuler_par_personnel", err, <<>>)]

\* variant: the move is not checked against the other appointments
ModifierDateRendezVousNiveau2SansConflit(id_rdv, nouvelle_date) ==
    LET err == IF id_rdv \notin IdsEnregistresNiveau2 THEN "introuvable"
               ELSE VerifierPlanifieNiveau2(ObtenirRendezVousNiveau2(id_rdv))
    IN  gestion' = IF err = "ok"
                   THEN [gestion EXCEPT
                           !.rendez_vous[IndexDeNiveau2(id_rdv)].date_heure = nouvelle_date,
                           !.dernier = DernierAppel("modifier_date", err, <<>>)]
                   ELSE [gestion EXCEPT !.dernier = DernierAppel("modifier_date", err, <<>>)]

\* niveau2: GestionRendezVous.modifier_date_rendez_vous
ModifierDateRendezVousNiveau2(id_rdv, nouvelle_date) ==
    LET err == IF id_rdv \notin IdsEnregistresNiveau2 THEN "introuvable"
               ELSE ModifierDateErreurNiveau2(ObtenirRendezVousNiveau2(id_rdv), nouvelle_date)
    IN  gestion' = IF err = "ok"
                   THEN [gestion EXCEPT
                           !.rendez_vous[IndexDeNiveau2(id_rdv)].date_heure = nouvelle_date,
                           !.dernier = DernierAppel("modifier_date", err, <<>>)]
                   ELSE [gestion EXCEPT !.dernier = DernierAppel("modifier_date", err, <<>>)]

\* niveau2: GestionRendezVous.realiser_rendez_vous
RealiserRendezVousNiveau2(id_rdv) ==
    LET err == IF id_rdv \notin IdsEnregistresNiveau2 THEN "introuvable"
               ELSE RealiserErreurNiveau2(ObtenirRendezVousNiveau2(id_rdv))
        rdv == ObtenirRendezVousNiveau2(id_rdv)
        acte == [ConstruireActeNiveau2(rdv) EXCEPT !.est_realise = TRUE]
    IN  gestion' = IF err = "ok"
                   THEN [gestion EXCEPT
                           !.patients[rdv.patient].dossier_medical.actes = Append(@, acte),
                           !.rendez_vous[IndexDeNiveau2(id_rdv)].statut = REALISE,
                           !.dernier = DernierAppel("realiser", err, <<>>)]
                   ELSE [gestion EXCEPT !.dernier = DernierAppel("realiser", err, <<>>)]

\* niveau2: GestionRendezVous.personnels_disponibles_par_type
PersonnelsDisponiblesParTypeNiveau2(date_heure) ==
    LET occupes == UNION {Elements(gestion.rendez_vous[i].personnels) :
                             i \in {j \in DOMAIN gestion.rendez_vous :
                                       /\ gestion.rendez_vous[j].statut = PLANIFIE
                                       /\ gestion.rendez_vous[j].date_heure = date_heure}}
        disponibles == SelectSeq(gestion.personnels_hopital, LAMBDA x : x \notin occupes)
    IN  [medecin |-> Compte(disponibles, "Medecin"),
         infirmier |-> Compte(disponibles, "Infirmier"),
         chirurgien |-> Compte(disponibles, "Chirurgien")]

\* niveau2: the value GestionRendezVous.nombre_rendez_vous_disponibles returns
NombreNiveau2(date_heure, type_acte) ==
    LET disponibles == PersonnelsDisponiblesParTypeNiveau2(date_heure)
    IN  IF type_acte = "Consultation" THEN disponibles.medecin
        ELSE IF type_acte = "Soin" THEN disponibles.infirmier
        ELSE Min(disponibles.chirurgien, disponibles.infirmier)

\* niveau2: GestionRendezVous.nombre_rendez_vous_disponibles
NombreRendezVousDisponiblesNiveau2(date_heure, type_acte) ==
    gestion' = [gestion EXCEPT
                  !.dernier = DernierAppel("nombre", "ok", <<NombreNiveau2(date_heure, type_acte)>>)]

\* the one centre of the configuration
CentreUnique == "cV"

\* the network of one centre beside the hospital: the hospital's staff, and no
\* one else, are attached to the centre and available at it, and both patients
\* live in its region
InitUnCentre ==
    /\ reseau = [centres |-> <<CentreUnique>>, rendez_vous |-> <<>>]
    /\ centres = [c \in Centres |->
                    [ville |-> VilleDe[c],
                     personnels |-> IF c = CentreUnique THEN GestionInitiale.personnels_hopital
                                    ELSE <<>>]]
    /\ personnels = [s \in Personnels |->
                    IF s \in Elements(GestionInitiale.personnels_hopital)
                    THEN [centres_rattaches |-> <<CentreUnique>>,
                          centre_disponible |-> CentreUnique]
                    ELSE [centres_rattaches |-> <<>>, centre_disponible |-> Aucun]]
    /\ patients = [p \in Patients |->
                    [ville_residence |-> "Versailles",
                     region_residence |-> "IDF",
                     centre_actuel |-> CentreUnique,
                     rendez_vous |-> <<>>,
                     dossier_medical |->
                         [centre_reference |-> CentreUnique, actes |-> <<>>,
                          transferts |-> <<>>]]]
    /\ app = AppInitiale
    /\ gestion = GestionInitiale
    /\ last = Repos

\* the staff lists given to a creation on both: no one, each staff member
\* alone (the physician the hospital does not manage included), the surgeon
\* with the nurse and the physician with the nurse
ListesUnCentre ==
    {<<>>} \cup {<<x>> : x \in Personnels} \cup {<<"ch1", "i1">>, <<"m1", "i1">>}

CreerLesDeux ==
    /\ last = Repos
    /\ UNCHANGED app
    /\ \E id_rdv \in IdsRdv, date_heure \in Creneaux, patient \in DOMAIN patients,
          type_acte \in TypeActeMedical, pers \in ListesUnCentre :
          /\ CreerRendezVous(id_rdv, date_heure, patient, CentreUnique, type_acte, pers)
          /\ CreerRendezVousNiveau2(id_rdv, date_heure, patient, type_acte, pers)

AnnulerPatientLesDeux ==
    /\ last = Repos
    /\ UNCHANGED app
    /\ \E id_rdv \in IdsRdv, date_demande \in DatesDemande :
          /\ AnnulerParPatient(id_rdv, date_demande)
          /\ AnnulerParPatientNiveau2(id_rdv, date_demande)

AnnulerPersonnelLesDeux ==
    /\ last = Repos
    /\ UNCHANGED app
    /\ \E id_rdv \in IdsRdv, personnel \in Personnels :
          /\ AnnulerParPersonnel(id_rdv, personnel)
          /\ AnnulerParPersonnelNiveau2(id_rdv, personnel)

ModifierDateLesDeux ==
    /\ last = Repos
    /\ UNCHANGED app
    /\ \E id_rdv \in IdsRdv, nouvelle_date \in Creneaux :
          /\ ModifierDateRendezVous(id_rdv, nouvelle_date)
          /\ ModifierDateRendezVousNiveau2(id_rdv, nouvelle_date)

RealiserLesDeux ==
    /\ last = Repos
    /\ UNCHANGED app
    /\ \E id_rdv \in IdsRdv :
          /\ RealiserRendezVous(id_rdv)
          /\ RealiserRendezVousNiveau2(id_rdv)

NombreLesDeux ==
    /\ last = Repos
    /\ UNCHANGED app
    /\ \E date_heure \in Creneaux, type_acte \in TypeActeMedical :
          /\ NombreRendezVousDisponibles(date_heure, CentreUnique, type_acte)
          /\ NombreRendezVousDisponiblesNiveau2(date_heure, type_acte)

\* the same calls on the network of one centre and on the hospital
NextUnCentre ==
    \/ CreerLesDeux
    \/ AnnulerPatientLesDeux
    \/ AnnulerPersonnelLesDeux
    \/ ModifierDateLesDeux
    \/ RealiserLesDeux
    \/ NombreLesDeux
    \/ Retour

SpecUnCentre == InitUnCentre /\ [][NextUnCentre]_vars

---------------------------------------------------------------------------
(* Vocabulary of the properties *)

RendezVousDe(i) == reseau.rendez_vous[i]

\* the registered appointments in status Planifie at a date
Planifies(date_heure) ==
    {i \in DOMAIN reseau.rendez_vous :
        RendezVousDe(i).statut = PLANIFIE /\ RendezVousDe(i).date_heure = date_heure}

Partage(pers1, pers2) == Elements(pers1) \cap Elements(pers2) # {}

ErreursConflit == {"conflit_patient", "conflit_personnel"}

\* the roster rule of each act type
Eligible(type_acte, pers) ==
    /\ pers # <<>>
    /\ CASE type_acte = "Consultation" -> Len(pers) = 1 /\ Classe[pers[1]] = "Medecin"
         [] type_acte = "Soin" -> Len(pers) = 1 /\ Classe[pers[1]] = "Infirmier"
         [] OTHER -> /\ \A x \in Elements(pers) : Classe[x] \in {"Chirurgien", "Infirmier"}
                     /\ \E x \in Elements(pers) : Classe[x] = "Chirurgien"
                     /\ \E x \in Elements(pers) : Classe[x] = "Infirmier"

\* every staff member of the list is in the centre's roster and available there
TousAffectables(centre, pers) ==
    \A x \in Elements(pers) :
        /\ x \in Elements(centres[centre].personnels)
        /\ personnels[x].centre_disponible = centre

\* the request passes every check that precedes conflict detection
PassePrealables(id_rdv, patient, centre, type_acte, pers) ==
    /\ id_rdv \notin IdsEnregistres
    /\ centre \in Elements(reseau.centres)
    /\ RegionContientVille(patients[patient].region_residence, VilleDe[centre])
    /\ TousAffectables(centre, pers)
    /\ Eligible(type_acte, pers)

---------------------------------------------------------------------------
(* Properties *)

\* C1: a creation whose staff list shares a member with an appointment that is
\* Planifie at the same date-time is rejected, whatever the patients and act
\* types; the error is a planning conflict once the request has passed the
\* checks that precede conflict detection; and a creation that succeeded
\* shares no staff with any other appointment Planifie at its date-time.
C1_PersonnelOccupeRefuse ==
    /\ last = Repos =>
          \A date_heure \in Creneaux, pers \in ListesPersonnels :
              (\E i \in Planifies(date_heure) : Partage(RendezVousDe(i).personnels, pers))
              => \A id_rdv \in IdsRdv, patient \in Patients, centre \in Centres,
                    type_acte \in TypeActeMedical :
                     LET err == CreerErreur(id_rdv, date_heure, patient, centre,
                                            type_acte, pers)
                     IN  /\ err # "ok"
                         /\ PassePrealables(id_rdv, patient, centre, type_acte, pers)
                            => err \in ErreursConflit
    /\ (last.op = "creer" /\ last.err = "ok") =>
          \A i \in Planifies(last.ret[1].date_heure) :
              RendezVousDe(i).id_rendez_vous # last.id
              => ~ Partage(RendezVousDe(i).personnels, last.ret[1].personnels)

\* a creation was refused for a busy staff member, where repeating an appointment
\* Planifie (same patient, type, date-time and staff) under the refused id is
\* refused that way
C1_Temoin ==
    /\ last.op = "creer"
    /\ last.err = "conflit_personnel"
    /\ \E i \in DOMAIN reseau.rendez_vous :
          /\ RendezVousDe(i).statut = PLANIFIE
          /\ CreerErreur(last.id, RendezVousDe(i).date_heure, RendezVousDe(i).patient,
                         RendezVousDe(i).centre, RendezVousDe(i).type_acte,
                         RendezVousDe(i).personnels) = "conflit_personnel"

\* C2: a creation for a patient who has an appointment Planifie at the same
\* date-time with another act type is rejected, also when the two staff lists
\* are disjoint; the error is a planning conflict once the request has passed
\* the checks that precede conflict detection; and a creation that succeeded
\* leaves the patient with no appointment of another type Planifie at its date.
C2_AutreTypeRefuse ==
    /\ last = Repos =>
          \A date_heure \in Creneaux, patient \in Patients, type_acte \in TypeActeMedical :
              (\E i \in Planifies(date_heure) :
                  /\ RendezVousDe(i).patient = patient
                  /\ RendezVousDe(i).type_acte # type_acte)
              => \A id_rdv \in IdsRdv, centre \in Centres, pers \in ListesPersonnels :
                     LET err == CreerErreur(id_rdv, date_heure, patient, centre,
                                            type_acte, pers)
                     IN  /\ err # "ok"
                         /\ PassePrealables(id_rdv, patient, centre, type_acte, pers)
                            => err \in ErreursConflit
    /\ (last.op = "creer" /\ last.err = "ok") =>
          \A i \in Planifies(last.ret[1].date_heure) :
              RendezVousDe(i).patient = last.ret[1].patient
              => RendezVousDe(i).type_acte = last.ret[1].type_acte

\* a creation was refused for the patient's other appointment, where a request
\* with a staff list disjoint from that appointment's is refused that way
C2_Temoin ==
    /\ last.op = "creer"
    /\ last.err = "conflit_patient"
    /\ \E i \in DOMAIN reseau.rendez_vous, type_acte \in TypeActeMedical,
           pers \in ListesPersonnels :
          /\ RendezVousDe(i).statut = PLANIFIE
          /\ type_acte # RendezVousDe(i).type_acte
          /\ ~ Partage(RendezVousDe(i).personnels, pers)
          /\ PassePrealables(last.id, RendezVousDe(i).patient, RendezVousDe(i).centre,
                             type_acte, pers)
          /\ CreerErreur(last.id, RendezVousDe(i).date_heure, RendezVousDe(i).patient,
                         RendezVousDe(i).centre, type_acte, pers) = "conflit_patient"

\* C3: when a patient has an appointment Planifie of type T at a date-time, a
\* further creation for the same patient, type and date-time succeeds if it
\* passes the checks that precede conflict detection and its staff list is
\* disjoint from the staff of every appointment Planifie at that date-time.
C3_MemeTypeAccepte ==
    last = Repos =>
        \A date_heure \in Creneaux, patient \in Patients, type_acte \in TypeActeMedical,
           pers \in ListesPersonnels :
            (/\ \E i \in Planifies(date_heure) :
                   /\ RendezVousDe(i).patient = patient
                   /\ RendezVousDe(i).type_acte = type_acte
             /\ \A i \in Planifies(date_heure) :
                   ~ Partage(RendezVousDe(i).personnels, pers))
            => \A id_rdv \in IdsRdv, centre \in Centres :
                   PassePrealables(id_rdv, patient, centre, type_acte, pers)
                   => CreerErreur(id_rdv, date_heure, patient, centre, type_acte, pers)
                        = "ok"

\* a creation has just given a patient a second appointment Planifie of the
\* same type at the same date-time
C3_Temoin ==
    /\ last.op = "creer"
    /\ last.err = "ok"
    /\ \E i \in Planifies(last.ret[1].date_heure) :
          /\ RendezVousDe(i).id_rendez_vous # last.id
          /\ RendezVousDe(i).patient = last.ret[1].patient
          /\ RendezVousDe(i).type_acte = last.ret[1].type_acte
          /\ ObtenirRendezVous(last.id).statut = PLANIFIE

\* the status is Annule or Realise
EstTerminal(rdv) == rdv.statut \in {ANNULE, REALISE}

\* the operations of an appointment's life cycle
OpsCycle == {"annuler_par_patient", "annuler_par_personnel", "modifier_date", "realiser"}

ActesDe(patient) == patients[patient].dossier_medical.actes

\* C4: the only status changes are Planifie -> Annule and Planifie -> Realise;
\* an appointment that is Annule or Realise keeps its status and date-time,
\* and a cancellation, move or fulfilment called on it raises the state error
\* and changes neither the registry nor any patient (record, appointment list).
C4_EtatsTerminaux ==
    [][\A i \in DOMAIN reseau.rendez_vous :
          /\ RendezVousDe(i).statut # reseau'.rendez_vous[i].statut
             => /\ RendezVousDe(i).statut = PLANIFIE
                /\ reseau'.rendez_vous[i].statut \in {ANNULE, REALISE}
          /\ EstTerminal(RendezVousDe(i))
             => /\ reseau'.rendez_vous[i] = RendezVousDe(i)
                /\ (last'.op \in OpsCycle /\ last'.id = RendezVousDe(i).id_rendez_vous)
                   => /\ last'.err = "etat"
                      /\ reseau' = reseau
                      /\ patients' = patients]_vars

\* a move was refused on an appointment that is Realise
C4_Temoin ==
    /\ last.op = "modifier_date"
    /\ last.err = "etat"
    /\ ObtenirRendezVous(last.id).statut = REALISE

\* C5: fulfilling an appointment that is Planifie succeeds and adds one act to
\* its patient's record; fulfilling it again raises the state error and leaves
\* the record as it is.
C5_RealiserDeuxFois ==
    [][(last'.op = "realiser" /\ last'.id \in IdsEnregistres)
       => LET rdv == ObtenirRendezVous(last'.id)
              apres == reseau'.rendez_vous[IndexDe(last'.id)]
          IN  /\ rdv.statut = PLANIFIE
                 => /\ last'.err = "ok"
                    /\ apres.statut = REALISE
                    /\ Len(patients'[rdv.patient].dossier_medical.actes)
                         = Len(ActesDe(rdv.patient)) + 1
              /\ rdv.statut = REALISE
                 => /\ last'.err = "etat"
                    /\ apres.statut = REALISE
                    /\ patients' = patients]_vars

\* the second fulfilment of an appointment was refused, its patient's record
\* holding the one act of the first
C5_Temoin ==
    /\ last.op = "realiser"
    /\ last.err = "etat"
    /\ ObtenirRendezVous(last.id).statut = REALISE
    /\ Len(ActesDe(ObtenirRendezVous(last.id).patient)) = 1

\* C6: a fulfilment that succeeds acts on an appointment that is Planifie,
\* returns an act of the appointment's type, dated at the appointment's current
\* date-time, with its patient, centre and staff and its flag est_realise set,
\* appends that act at the end of the patient's record and makes the
\* appointment Realise.
C6_ActeProduit ==
    [][(last'.op = "realiser" /\ last'.err = "ok")
       => LET rdv == ObtenirRendezVous(last'.id)
              apres == reseau'.rendez_vous[IndexDe(last'.id)]
              acte == last'.ret[1]
          IN  /\ rdv.statut = PLANIFIE
              /\ acte.type_acte = rdv.type_acte
              /\ acte.date_acte = rdv.date_heure
              /\ acte.patient = rdv.patient
              /\ acte.centre = rdv.centre
              /\ acte.personnels = rdv.personnels
              /\ acte.est_realise
              /\ patients'[rdv.patient].dossier_medical.actes
                   = Append(ActesDe(rdv.patient), acte)
              /\ apres = [rdv EXCEPT !.statut = REALISE]]_vars

\* a fulfilment has returned an intervention that is the second act of the record
C6_Temoin ==
    /\ last.op = "realiser"
    /\ last.err = "ok"
    /\ last.ret[1].type_acte = "Intervention chirurgicale"
    /\ Len(ActesDe(last.ret[1].patient)) = 2
    /\ ActesDe(last.ret[1].patient)[2] = last.ret[1]

\* C7: a patient's cancellation of an appointment that is Planifie fails exactly
\* when the appointment's date-time minus the request time is below 24 hours;
\* the appointment then stays Planifie, and becomes Annule otherwise.
C7_AnnulationPatient ==
    [][(/\ last'.op = "annuler_par_patient"
        /\ last'.id \in IdsEnregistres
        /\ ObtenirRendezVous(last'.id).statut = PLANIFIE)
       => LET rdv == ObtenirRendezVous(last'.id)
              apres == reseau'.rendez_vous[IndexDe(last'.id)]
          IN  /\ last'.err # "ok" <=> rdv.date_heure - last'.date < 24
              /\ last'.err # "ok" => apres = rdv
              /\ last'.err = "ok" => apres = [rdv EXCEPT !.statut = ANNULE]]_vars

\* a cancellation requested exactly 24 hours before has succeeded
C7_Temoin ==
    /\ last.op = "annuler_par_patient"
    /\ last.err = "ok"
    /\ ObtenirRendezVous(last.id).statut = ANNULE
    /\ ObtenirRendezVous(last.id).date_heure - last.date = 24

\* C8: a staff cancellation of an appointment that is Planifie succeeds, making
\* it Annule, if and only if the staff member is one of its assigned staff;
\* otherwise the appointment stays Planifie.
C8_AnnulationPersonnel ==
    [][(/\ last'.op = "annuler_par_personnel"
        /\ last'.id \in IdsEnregistres
        /\ ObtenirRendezVous(last'.id).statut = PLANIFIE)
       => LET rdv == ObtenirRendezVous(last'.id)
              apres == reseau'.rendez_vous[IndexDe(last'.id)]
          IN  /\ last'.err = "ok" <=> \E k \in DOMAIN rdv.personnels :
                                          rdv.personnels[k] = last'.personnel
              /\ last'.err = "ok" => apres = [rdv EXCEPT !.statut = ANNULE]
              /\ last'.err # "ok" => apres = rdv]_vars

\* the second staff member of an intervention has cancelled it
C8_Temoin ==
    /\ last.op = "annuler_par_personnel"
    /\ last.err = "ok"
    /\ ObtenirRendezVous(last.id).statut = ANNULE
    /\ Len(ObtenirRendezVous(last.id).personnels) = 2
    /\ ObtenirRendezVous(last.id).personnels[2] = last.personnel

\* another appointment Planifie at the date conflicts with the appointment
ConflitAvecAutre(rdv, date_heure) ==
    \E j \in Planifies(date_heure) :
        /\ RendezVousDe(j).id_rendez_vous # rdv.id_rendez_vous
        /\ \/ RendezVousDe(j).patient = rdv.patient
              /\ RendezVousDe(j).type_acte # rdv.type_acte
           \/ Partage(RendezVousDe(j).personnels, rdv.personnels)

\* C9: moving an appointment that is Planifie fails with a planning conflict,
\* the registry unchanged, when another appointment Planifie at the new time
\* conflicts with it; otherwise it succeeds, only its date-time changes and it
\* stays Planifie; moving it to its own current time succeeds.
C9_ModifierDate ==
    [][(/\ last'.op = "modifier_date"
        /\ last'.id \in IdsEnregistres
        /\ ObtenirRendezVous(last'.id).statut = PLANIFIE)
       => LET rdv == ObtenirRendezVous(last'.id)
          IN  /\ ConflitAvecAutre(rdv, last'.date)
                 => last'.err \in ErreursConflit /\ reseau' = reseau
              /\ ~ ConflitAvecAutre(rdv, last'.date)
                 => /\ last'.err = "ok"
                    /\ reseau' = [reseau EXCEPT
                                    !.rendez_vous[IndexDe(last'.id)].date_heure = last'.date]
              /\ last'.date = rdv.date_heure => last'.err = "ok"]_vars

\* an appointment has been moved to a slot where another appointment is Planifie
C9_Temoin ==
    /\ last.op = "modifier_date"
    /\ last.err = "ok"
    /\ ObtenirRendezVous(last.id).date_heure = last.date
    /\ \E j \in Planifies(last.date) : RendezVousDe(j).id_rendez_vous # last.id

\* the rank of the check that raises an error; 7 stands for no error
RangErreur(err) ==
    CASE err = "existe_deja" -> 1
      [] err = "centre_non_gere" -> 2
      [] err = "hors_region" -> 3
      [] err \in {"non_rattache", "indisponible"} -> 4
      [] err \in {"sans_personnel", "affectation"} -> 5
      [] err \in ErreursConflit -> 6
      [] OTHER -> 7

\* the ranks of the rules a request violates
ReglesViolees(id_rdv, date_heure, patient, centre, type_acte, pers) ==
    {k \in 1..6 :
        CASE k = 1 -> id_rdv \in IdsEnregistres
          [] k = 2 -> centre \notin Elements(reseau.centres)
          [] k = 3 -> ~ RegionContientVille(patients[patient].region_residence,
                                            VilleDe[centre])
          [] k = 4 -> ~ TousAffectables(centre, pers)
          [] k = 5 -> ~ Eligible(type_acte, pers)
          [] OTHER -> \E i \in Planifies(date_heure) :
                         \/ RendezVousDe(i).patient = patient
                            /\ RendezVousDe(i).type_acte # type_acte
                         \/ Partage(RendezVousDe(i).personnels, pers)}

\* the lowest rank of a set of violated rules; 7 when none is violated
PremierRang(violees) ==
    CHOOSE k \in violees \cup {7} : \A j \in violees \cup {7} : k <= j

\* C10: a creation reports the error of the violated rule of lowest rank, in the
\* order duplicate id, unregistered centre, regional access, staff attachment
\* and availability, roster shape, slot conflict; it succeeds when no rule is
\* violated.
C10_OrdreDesControles ==
    [](last = Repos =>
            \A id_rdv \in IdsRdv, date_heure \in Creneaux, patient \in Patients,
               centre \in Centres, type_acte \in TypeActeMedical, pers \in ListesPersonnels :
                RangErreur(CreerErreur(id_rdv, date_heure, patient, centre, type_acte, pers))
                  = IF id_rdv \in IdsEnregistres THEN 1
                    ELSE PremierRang(ReglesViolees(id_rdv, date_heure, patient, centre,
                                                   type_acte, pers)))

\* a creation was refused for its centre, where a request under the refused id
\* that violates four rules at once is refused that way
C10_Temoin ==
    /\ last.op = "creer"
    /\ last.err = "centre_non_gere"
    /\ \E date_heure \in Creneaux, patient \in Patients, centre \in Centres,
           type_acte \in TypeActeMedical, pers \in ListesPersonnels :
          /\ {2, 3, 4, 5} \subseteq ReglesViolees(last.id, date_heure, patient, centre,
                                                  type_acte, pers)
          /\ CreerErreur(last.id, date_heure, patient, centre, type_acte, pers)
               = last.err

\* C11: a creation that fails changes nothing (registry, patients with their
\* records and appointment lists, staff, centres); a creation that succeeds
\* returns an appointment Planifie under the given id, which was not
\* registered, adds it alone at the end of the registry and its id at the end
\* of its patient's appointment list, and changes nothing else.
C11_CreationAtomique ==
    [][last'.op = "creer"
       => /\ last'.err # "ok"
             => /\ reseau' = reseau
                /\ patients' = patients
                /\ personnels' = personnels
                /\ centres' = centres
          /\ last'.err = "ok"
             => LET rdv == last'.ret[1]
                IN  /\ rdv.statut = PLANIFIE
                    /\ rdv.id_rendez_vous = last'.id
                    /\ last'.id \notin IdsEnregistres
                    /\ reseau' = [reseau EXCEPT !.rendez_vous = Append(@, rdv)]
                    /\ patients' = [patients EXCEPT
                                      ![rdv.patient].rendez_vous = Append(@, last'.id)]
                    /\ personnels' = personnels
                    /\ centres' = centres]_vars

\* a creation was refused by the last check, conflict detection, the registry
\* holding one appointment and its patient's list that appointment only
C11_Temoin ==
    /\ last.op = "creer"
    /\ last.err \in ErreursConflit
    /\ Len(reseau.rendez_vous) = 1
    /\ patients[RendezVousDe(1).patient].rendez_vous = <<RendezVousDe(1).id_rendez_vous>>

\* C12: a creation with an unregistered id at a registered centre whose city is
\* outside the patient's region of residence raises the regional-access error,
\* whatever the staff requested; and the centre of every registered
\* appointment lies in the region of residence of its patient.
C12_AccesRegional ==
    /\ last = Repos =>
          \A patient \in Patients, centre \in Centres :
              (/\ centre \in Elements(reseau.centres)
               /\ ~ RegionContientVille(patients[patient].region_residence, VilleDe[centre]))
              => \A id_rdv \in IdsRdv \ IdsEnregistres, date_heure \in Creneaux,
                    type_acte \in TypeActeMedical, pers \in ListesPersonnels :
                     CreerErreur(id_rdv, date_heure, patient, centre, type_acte, pers)
                       = "hors_region"
    /\ \A i \in DOMAIN reseau.rendez_vous :
          RegionContientVille(patients[RendezVousDe(i).patient].region_residence,
                              VilleDe[RendezVousDe(i).centre])

\* a creation was refused for the region, where a request under the refused id
\* whose staff is neither attached to the centre nor free at the date is
\* refused that way
C12_Temoin ==
    /\ last.op = "creer"
    /\ last.err = "hors_region"
    /\ \E date_heure \in Creneaux, patient \in Patients, centre \in Centres,
           type_acte \in TypeActeMedical, pers \in ListesPersonnels :
          /\ centre \in Elements(reseau.centres)
          /\ \E x \in Elements(pers) : x \notin Elements(centres[centre].personnels)
          /\ \E i \in Planifies(date_heure) : Partage(RendezVousDe(i).personnels, pers)
          /\ CreerErreur(last.id, date_heure, patient, centre, type_acte, pers)
               = "hors_region"

\* C13: a creation is refused when a requested staff member is not in the
\* roster of the centre, or is in it with another available centre or none;
\* and the staff of an appointment just registered are all in the roster of
\* its centre and available there.
C13_PersonnelsAffectables ==
    /\ last = Repos =>
          \A centre \in Centres, pers \in ListesPersonnels :
              (\E x \in Elements(pers) :
                  \/ x \notin Elements(centres[centre].personnels)
                  \/ personnels[x].centre_disponible # centre)
              => \A id_rdv \in IdsRdv, date_heure \in Creneaux, patient \in Patients,
                    type_acte \in TypeActeMedical :
                     CreerErreur(id_rdv, date_heure, patient, centre, type_acte, pers) # "ok"
    /\ (last.op = "creer" /\ last.err = "ok") =>
          \A x \in Elements(last.ret[1].personnels) :
              /\ x \in Elements(centres[last.ret[1].centre].personnels)
              /\ personnels[x].centre_disponible = last.ret[1].centre

\* a creation was refused for an unavailable staff member, where a consultation
\* with the physician who has no available centre is refused that way
C13_Temoin ==
    /\ last.op = "creer"
    /\ last.err = "indisponible"
    /\ personnels["m2"].centre_disponible = Aucun
    /\ \E date_heure \in Creneaux :
          CreerErreur(last.id, date_heure, "p1", "cV", "Consultation", <<"m2">>)
            = "indisponible"

\* C14: a creation under a registered id raises the duplicate error and leaves
\* the registry as it is, whatever the status of the registered appointment;
\* no step removes a registered appointment or changes its id, patient, centre,
\* act type or staff; and no two registered appointments have the same id.
C14_IdentifiantsUniques ==
    [][/\ (last'.op = "creer" /\ last'.id \in IdsEnregistres)
          => last'.err = "existe_deja" /\ reseau' = reseau
       /\ \A i \in DOMAIN reseau.rendez_vous :
             /\ i \in DOMAIN reseau'.rendez_vous
             /\ reseau'.rendez_vous[i].id_rendez_vous = RendezVousDe(i).id_rendez_vous
             /\ reseau'.rendez_vous[i].patient = RendezVousDe(i).patient
             /\ reseau'.rendez_vous[i].centre = RendezVousDe(i).centre
             /\ reseau'.rendez_vous[i].type_acte = RendezVousDe(i).type_acte
             /\ reseau'.rendez_vous[i].personnels = RendezVousDe(i).personnels
       /\ \A i, j \in DOMAIN reseau'.rendez_vous :
             reseau'.rendez_vous[i].id_rendez_vous = reseau'.rendez_vous[j].id_rendez_vous
             => i = j]_vars

\* a creation was refused for its id, taken by an appointment that is Annule,
\* the other registered appointment being Realise
C14_Temoin ==
    /\ last.op = "creer"
    /\ last.err = "existe_deja"
    /\ ObtenirRendezVous(last.id).statut = ANNULE
    /\ \E i \in DOMAIN reseau.rendez_vous : RendezVousDe(i).statut = REALISE

\* the construction of an appointment accepts a staff list exactly when the list
\* satisfies the rule of the act type
ConstructionConforme ==
    \A type_acte \in TypeActeMedical, pers \in ListesPersonnels :
        RendezVousPostInit(type_acte, pers) = "ok" <=> Eligible(type_acte, pers)

\* C15: the construction of an appointment accepts a staff list exactly when the
\* list satisfies the rule of the act type (one physician for a consultation,
\* one nurse for a treatment, surgeons and nurses only with at least one of
\* each for an intervention, never the empty list); and every registered
\* appointment satisfies the rule of its type.
C15_ReglesDAffectation ==
    /\ ConstructionConforme
    /\ \A i \in DOMAIN reseau.rendez_vous :
          Eligible(RendezVousDe(i).type_acte, RendezVousDe(i).personnels)

\* a creation was refused for its staff list, an intervention with a surgeon
\* and a nurse being registered
C15_Temoin ==
    /\ last.op = "creer"
    /\ last.err = "affectation"
    /\ \E i \in DOMAIN reseau.rendez_vous :
          /\ RendezVousDe(i).type_acte = "Intervention chirurgicale"
          /\ Len(RendezVousDe(i).personnels) = 2

\* C16 as stated: the construction of an act fails when its staff list violates
\* the rule of its variant, so that every act constructed has an eligible list.
C16_ControleALaConstruction ==
    (last.op = "construire_acte" /\ last.err = "ok")
    => Eligible(last.ret[1].type_acte, last.ret[1].personnels)

\* C16, amended: the construction of an act rejects the empty staff list only;
\* the rule of the variant is checked when the act is realised: realising an
\* act whose staff list violates it raises an error and changes no record, and
\* every act of every record has an eligible staff list and is marked realised.
C16_ControleALaRealisation ==
    [][/\ (last'.op = "construire_acte" /\ last'.err = "ok")
          => last'.ret[1].personnels # <<>>
       /\ last'.op = "realiser_acte"
          => (~ Eligible(last.ret[1].type_acte, last.ret[1].personnels)
              => /\ last'.err = "habilitation"
                 /\ patients' = patients
                 /\ ~ last'.ret[1].est_realise)
       /\ \A p \in Patients :
             \A k \in DOMAIN patients'[p].dossier_medical.actes :
                LET acte == patients'[p].dossier_medical.actes[k]
                IN  Eligible(acte.type_acte, acte.personnels) /\ acte.est_realise]_vars

\* the realisation of a consultation built with a nurse and a surgeon was refused
C16_Temoin ==
    /\ last.op = "realiser_acte"
    /\ last.err = "habilitation"
    /\ last.ret[1].type_acte = "Consultation"
    /\ last.ret[1].personnels = <<"i1", "ch1">>
    /\ ~ last.ret[1].est_realise

\* the identifiers of two requests that no registered appointment uses
IdsNouveaux == <<3, 4>>
IdA == IdsNouveaux[1]
IdB == IdsNouveaux[2]

\* an appointment as creer_rendez_vous registers it
RendezVousPlanifie(id_rdv, r) ==
    [id_rendez_vous |-> id_rdv, date_heure |-> r.date_heure, patient |-> r.patient,
     centre |-> r.centre, type_acte |-> r.type_acte, personnels |-> r.pers,
     statut |-> PLANIFIE]

\* the outcome of request b under id_b on the registry rdvs once request a has
\* been registered under id_a
ErreurApres(rdvs, id_a, a, id_b, b) ==
    CreerErreurDans(Append(rdvs, RendezVousPlanifie(id_a, a)), id_b, b.date_heure,
                    b.patient, b.centre, b.type_acte, b.pers)

\* the arguments of a creation, the id apart
Requetes ==
    {[date_heure |-> date_heure, patient |-> patient, centre |-> centre,
      type_acte |-> type_acte, pers |-> pers] :
        date_heure \in Creneaux, patient \in Patients, centre \in Centres,
        type_acte \in TypeActeMedical, pers \in ListesPersonnels}

\* the requests that succeed on the registry of the state
Acceptees ==
    {r \in Requetes :
        CreerErreur(IdA, r.date_heure, r.patient, r.centre, r.type_acte, r.pers) = "ok"}

\* C17: for two requests under distinct unregistered ids that each succeed on
\* the state, the second is refused after the first in one order exactly when
\* it is in the other order, with the same error, which is a planning conflict.
C17_DetectionSymetrique ==
    [](last = Repos =>
            LET acceptees == Acceptees
            IN  \A a \in acceptees :
                   /\ CreerErreurDans(reseau.rendez_vous, IdB, a.date_heure, a.patient, a.centre,
                                      a.type_acte, a.pers) = "ok"
                   /\ \A b \in acceptees :
                         LET apres_a == ErreurApres(reseau.rendez_vous, IdA, a, IdB, b)
                         IN  /\ apres_a = ErreurApres(reseau.rendez_vous, IdB, b, IdA, a)
                             /\ apres_a \in ErreursConflit \cup {"ok"})

\* a creation was refused for the patient's other appointment, the only one
\* registered, where the two requests succeed alone and each is refused that
\* way after the other
C17_Temoin ==
    /\ last.op = "creer"
    /\ last.err = "conflit_patient"
    /\ Len(reseau.rendez_vous) = 1
    /\ RendezVousDe(1).statut = PLANIFIE
    /\ LET a == [date_heure |-> RendezVousDe(1).date_heure,
                 patient |-> RendezVousDe(1).patient, centre |-> RendezVousDe(1).centre,
                 type_acte |-> RendezVousDe(1).type_acte,
                 pers |-> RendezVousDe(1).personnels]
       IN  \E b \in Requetes :
              /\ CreerErreurDans(<<>>, RendezVousDe(1).id_rendez_vous, a.date_heure,
                                 a.patient, a.centre, a.type_acte, a.pers) = "ok"
              /\ CreerErreurDans(<<>>, last.id, b.date_heure, b.patient, b.centre,
                                 b.type_acte, b.pers) = "ok"
              /\ ErreurApres(<<>>, RendezVousDe(1).id_rendez_vous, a, last.id, b)
                   = "conflit_patient"
              /\ ErreurApres(<<>>, last.id, b, RendezVousDe(1).id_rendez_vous, a)
                   = "conflit_patient"

\* the staff of a centre's roster available there and assigned to no
\* appointment Planifie at the date, at any centre
Libres(date_heure, centre) ==
    {x \in Elements(centres[centre].personnels) :
        /\ personnels[x].centre_disponible = centre
        /\ ~ \E i \in Planifies(date_heure) : x \in Elements(RendezVousDe(i).personnels)}

NombreDe(ensemble, classe) == Cardinality({x \in ensemble : Classe[x] = classe})

\* C18: the capacity query changes no state; it raises exactly when the centre
\* is not registered; otherwise it returns, of the free staff of the centre at
\* the date, the number of physicians for a consultation, of nurses for a
\* treatment, and the smaller of the numbers of surgeons and of nurses for an
\* intervention, never a negative number; 2 surgeons and 1 nurse give 1.
C18_CapaciteDisponible ==
    [][/\ NombreParType([medecin |-> 0, infirmier |-> 1, chirurgien |-> 2],
                        "Intervention chirurgicale") = 1
       /\ last'.op = "nombre"
          => /\ reseau' = reseau
             /\ patients' = patients
             /\ personnels' = personnels
             /\ centres' = centres
             /\ last'.err # "ok" <=> last'.centre \notin Elements(reseau.centres)
             /\ last'.err = "ok"
                => LET libres == Libres(last'.date, last'.centre)
                       chirurgiens == NombreDe(libres, "Chirurgien")
                       infirmiers == NombreDe(libres, "Infirmier")
                   IN  /\ last'.ret[1] >= 0
                       /\ last'.type_acte = "Consultation"
                          => last'.ret[1] = NombreDe(libres, "Medecin")
                       /\ last'.type_acte = "Soin" => last'.ret[1] = infirmiers
                       /\ last'.type_acte = "Intervention chirurgicale"
                          => /\ last'.ret[1] <= chirurgiens
                             /\ last'.ret[1] <= infirmiers
                             /\ last'.ret[1] \in {chirurgiens, infirmiers}]_vars

\* the query for consultations at a centre has left out a physician who is
\* available there and holds an appointment Planifie at the date at another centre
C18_Temoin ==
    /\ last.op = "nombre"
    /\ last.err = "ok"
    /\ last.type_acte = "Consultation"
    /\ last.centre = "cV"
    /\ personnels["m1"].centre_disponible = "cV"
    /\ personnels["m2"].centre_disponible = "cV"
    /\ \E i \in Planifies(last.date) :
          /\ RendezVousDe(i).centre = "cR"
          /\ RendezVousDe(i).personnels = <<"m1">>
    /\ last.ret = <<1>>

\* the centre a patient's record was opened at
CentreOriginal == [p1 |-> "cV", p2 |-> "cR"]

\* centre_reference is the destination of the last transfer, or the centre the
\* record was opened at
ReferenceAJour(dossier, patient) ==
    dossier.centre_reference =
        IF dossier.transferts = <<>> THEN CentreOriginal[patient]
        ELSE dossier.transferts[Len(dossier.transferts)].nouveau_centre

\* C19: in every state the reference centre of every record is the destination
\* of its last transfer, or its original centre when it has none; a transfer
\* that succeeds adds exactly one entry at the end of the patient's transfer
\* list, and every other step (a transfer that fails, any other operation)
\* leaves the list as it is; no entry is ever changed or removed.
C19_HistoriqueDesTransferts ==
    /\ [](\A p \in Patients : ReferenceAJour(patients[p].dossier_medical, p))
    /\ [][\A p \in Patients :
             LET avant == patients[p].dossier_medical.transferts
                 apres == patients'[p].dossier_medical.transferts
             IN  /\ IF last'.op = "transferer" /\ last'.patient = p /\ last'.err = "ok"
                    THEN Len(apres) = Len(avant) + 1
                    ELSE apres = avant
                 /\ Len(apres) >= Len(avant)
                 /\ SubSeq(apres, 1, Len(avant)) = avant]_vars

\* a patient has just been transferred a second time, back to the centre the
\* record was opened at
C19_Temoin ==
    /\ last.op = "transferer"
    /\ last.err = "ok"
    /\ Len(patients[last.patient].dossier_medical.transferts) = 2
    /\ patients[last.patient].dossier_medical.centre_reference = CentreOriginal[last.patient]
    /\ patients[last.patient].dossier_medical.transferts[1].nouveau_centre
         # CentreOriginal[last.patient]

\* C20: a transfer fails exactly when the new centre is not registered or is
\* the patient's current centre, and then changes no patient; when it succeeds
\* the patient's current centre and the record's reference centre become the
\* new centre and the entry added records the date, the previous current
\* centre and the new centre; nothing else changes.
C20_Transfert ==
    [][last'.op = "transferer"
       => LET p == last'.patient
              c == last'.centre
          IN  /\ last'.err # "ok" <=> \/ c \notin Elements(reseau.centres)
                                      \/ c = patients[p].centre_actuel
              /\ last'.err # "ok" => patients' = patients
              /\ last'.err = "ok"
                 => /\ patients'[p].centre_actuel = c
                    /\ patients'[p].dossier_medical.centre_reference = c
                    /\ patients'[p].dossier_medical.transferts
                         = Append(patients[p].dossier_medical.transferts,
                                  [date_transfert |-> last'.date,
                                   ancien_centre |-> patients[p].centre_actuel,
                                   nouveau_centre |-> c])
                    /\ \A q \in Patients \ {p} : patients'[q] = patients[q]
              /\ reseau' = reseau
              /\ personnels' = personnels
              /\ centres' = centres]_vars

\* a transfer to the patient's current centre, reached by an earlier transfer,
\* was refused
C20_Temoin ==
    /\ last.op = "transferer"
    /\ last.err = "transfert_inutile"
    /\ last.centre = patients[last.patient].centre_actuel
    /\ last.centre # CentreOriginal[last.patient]
    /\ Len(patients[last.patient].dossier_medical.transferts) = 1

\* C21: a transfer, whether it succeeds or fails, leaves the registry and every
\* appointment, every patient's appointment list, acts, residence region and
\* city, and every staff member's attachments and availability as they were,
\* and does not change the outcome of any cancellation, move or fulfilment of a
\* registered appointment; a fulfilment of an appointment whose patient has
\* since moved to another centre yields an act at the appointment's centre.
C21_TransfertSansEffetDeBord ==
    [][/\ last'.op = "transferer"
          => /\ reseau' = reseau
             /\ personnels' = personnels
             /\ centres' = centres
             /\ \A p \in Patients :
                   /\ patients'[p].rendez_vous = patients[p].rendez_vous
                   /\ patients'[p].dossier_medical.actes = ActesDe(p)
                   /\ patients'[p].region_residence = patients[p].region_residence
                   /\ patients'[p].ville_residence = patients[p].ville_residence
             /\ \A i \in DOMAIN reseau.rendez_vous :
                   LET rdv == RendezVousDe(i)
                   IN  /\ RealiserErreur(rdv)' = RealiserErreur(rdv)
                       /\ \A d \in Creneaux :
                             ModifierDateErreur(rdv, d)' = ModifierDateErreur(rdv, d)
                       /\ \A d \in DatesDemande :
                             AnnulerParPatientErreur(rdv, d)' = AnnulerParPatientErreur(rdv, d)
                       /\ \A x \in Personnels :
                             AnnulerParPersonnelErreur(rdv, x)'
                               = AnnulerParPersonnelErreur(rdv, x)
       /\ (last'.op = "realiser" /\ last'.err = "ok")
          => /\ last'.ret[1].centre = ObtenirRendezVous(last'.id).centre
             /\ reseau'.rendez_vous[IndexDe(last'.id)].centre
                  = ObtenirRendezVous(last'.id).centre]_vars

\* an appointment at the centre its patient's record was opened at has been
\* fulfilled there after the patient's transfer to another centre
C21_Temoin ==
    /\ last.op = "realiser"
    /\ last.err = "ok"
    /\ patients[last.ret[1].patient].dossier_medical.transferts # <<>>
    /\ patients[last.ret[1].patient].centre_actuel # last.ret[1].centre
    /\ last.ret[1].centre = CentreOriginal[last.ret[1].patient]
    /\ ObtenirRendezVous(last.id).statut = REALISE

\* C22: the construction of a patient fails exactly when no department of the
\* residence region lists the residence city, and then builds no patient; in
\* every state reached through additions of cities and departments,
\* constructions, transfers and appointment operations, every patient's
\* residence city is listed by a department of the patient's residence region.
C22_ResidenceDansLaRegion ==
    /\ [](\A p \in DOMAIN patients :
             RegionContientVille(patients[p].region_residence, patients[p].ville_residence))
    /\ [][last'.op = "nouveau_patient"
          => /\ last'.err # "ok"
                  <=> \A i \in DOMAIN app.regions[last'.region] :
                         last'.ville \notin Elements(app.departements[app.regions[last'.region][i]])
             /\ last'.err # "ok" => patients' = patients
             /\ last'.err = "ok"
                => /\ DOMAIN patients' = DOMAIN patients \cup {last'.nom}
                   /\ patients'[last'.nom].ville_residence = last'.ville
                   /\ patients'[last'.nom].region_residence = last'.region
                   /\ \A q \in DOMAIN patients : patients'[q] = patients[q]]_vars

\* a patient built as a resident of a city and a region that were joined after
\* the start has had a consultation fulfilled and has been transferred
C22_Temoin ==
    /\ "p2" \in DOMAIN patients
    /\ patients["p2"].ville_residence = VilleNouvelle
    /\ patients["p2"].region_residence = "IDF"
    /\ patients["p2"].dossier_medical.actes # <<>>
    /\ patients["p2"].dossier_medical.transferts # <<>>

\* a list holds no member twice
SansRepetition(liste) == Cardinality(Elements(liste)) = Len(liste)

\* C23: in every state a centre is in a staff member's list of attachments
\* exactly when the staff member is in the centre's roster, and neither list
\* holds a member twice; rattacher_a_centre and ajouter_personnel both leave the
\* pair attached on both sides, change nothing when it already was, and touch
\* no other staff member and no other centre.
C23_RattachementBidirectionnel ==
    /\ [](/\ \A c \in Centres :
                /\ SansRepetition(centres[c].personnels)
                /\ Elements(centres[c].personnels) \subseteq DOMAIN personnels
                /\ \A x \in DOMAIN personnels :
                      c \in Elements(personnels[x].centres_rattaches)
                        <=> x \in Elements(centres[c].personnels)
           /\ \A x \in DOMAIN personnels : SansRepetition(personnels[x].centres_rattaches))
    /\ [][last'.op \in {"rattacher_a_centre", "ajouter_personnel"}
          => LET x == last'.personnel
                 c == last'.centre
             IN  /\ c \in Elements(personnels'[x].centres_rattaches)
                 /\ x \in Elements(centres'[c].personnels)
                 /\ c \in Elements(personnels[x].centres_rattaches)
                    => personnels' = personnels /\ centres' = centres
                 /\ c \notin Elements(personnels[x].centres_rattaches)
                    => /\ personnels'[x].centres_rattaches
                            = Append(personnels[x].centres_rattaches, c)
                       /\ centres'[c].personnels = Append(centres[c].personnels, x)
                 /\ \A y \in DOMAIN personnels \ {x} : personnels'[y] = personnels[y]
                 /\ \A d \in Centres \ {c} : centres'[d] = centres[d]
                 /\ personnels'[x].centre_disponible = personnels[x].centre_disponible]_vars

\* after ajouter_personnel a staff member is attached to two centres, the second
\* centre lists two members and the roster of the first is as it was
C23_Temoin ==
    /\ last.op = "ajouter_personnel"
    /\ last.centre = "cR"
    /\ personnels[last.personnel].centres_rattaches = <<"cV", "cR">>
    /\ centres["cR"].personnels = <<"m1", last.personnel>>
    /\ centres["cV"].personnels = <<"m1", "ch1", "i1">>

\* C24: definir_disponibilite fails exactly when the centre is not in the staff
\* member's attachments and then leaves the available centre as it was; when it
\* succeeds the available centre becomes that centre; in every state the one
\* available centre of a staff member is absent or one of the attachments.
C24_DisponibiliteRattachee ==
    /\ [](\A x \in DOMAIN personnels :
             personnels[x].centre_disponible
               \in {Aucun} \cup Elements(personnels[x].centres_rattaches))
    /\ [][last'.op = "definir_disponibilite"
          => LET x == last'.personnel
                 c == last'.centre
             IN  /\ last'.err # "ok" <=> c \notin Elements(personnels[x].centres_rattaches)
                 /\ last'.err # "ok" => personnels' = personnels
                 /\ last'.err = "ok"
                    => personnels' = [personnels EXCEPT ![x].centre_disponible = c]
                 /\ centres' = centres]_vars

\* availability at the centre of Rouen was refused to a staff member who is
\* available at Versailles and not attached to Rouen, after it was granted to
\* another who was attached there during the run
C24_Temoin ==
    /\ last.op = "definir_disponibilite"
    /\ last.err = "non_rattache"
    /\ last.centre = "cR"
    /\ personnels[last.personnel].centre_disponible = "cV"
    /\ \E y \in PersonnelsMobiles \cap DOMAIN personnels :
          personnels[y].centre_disponible = "cR"

\* C28: the host's addition of a staff member either succeeds, the staff member
\* being attached to every centre named, available and in the directory, or
\* fails and then changes no roster, no staff member and not the directory.
C28_AjoutPersonnelToutOuRien ==
    [][last'.op = "on_add_staff"
       => /\ last'.err = "ok"
             => /\ last'.personnel \in app'.personnels
                /\ last'.personnel \in DOMAIN personnels'
          /\ last'.err # "ok"
             => /\ centres' = centres
                /\ personnels' = personnels
                /\ app' = app]_vars

\* C26: an act is built with its flag est_realise false; realiser on an act
\* whose flag is false and whose staff list is eligible sets the flag and
\* appends the act once at the end of the patient's record; realiser on an act
\* whose flag is set raises the already-realised error, leaves every record as
\* it is and the flag set; realiser on an act whose staff list is not eligible
\* leaves the flag false and every record as it is; the acts of a record keep
\* their flag set.
C26_DrapeauIrreversible ==
    [][/\ (last'.op = "construire_acte" /\ last'.err = "ok")
          => ~ last'.ret[1].est_realise
       /\ last'.op = "realiser_acte"
          => LET acte == last.ret[1]
                 apres == last'.ret[1]
             IN  /\ acte.est_realise
                    => /\ last'.err = "deja_realise"
                       /\ patients' = patients
                       /\ apres = acte
                 /\ (~ acte.est_realise /\ Eligible(acte.type_acte, acte.personnels))
                    => /\ last'.err = "ok"
                       /\ apres = [acte EXCEPT !.est_realise = TRUE]
                       /\ patients' = [patients EXCEPT
                               ![acte.patient].dossier_medical.actes = Append(@, apres)]
                 /\ (~ acte.est_realise /\ ~ Eligible(acte.type_acte, acte.personnels))
                    => /\ last'.err \notin {"ok", "deja_realise"}
                       /\ patients' = patients
                       /\ apres = acte
       /\ \A p \in Patients :
             \A k \in DOMAIN ActesDe(p) :
                /\ ActesDe(p)[k].est_realise
                /\ k \in DOMAIN patients'[p].dossier_medical.actes
                /\ patients'[p].dossier_medical.actes[k] = ActesDe(p)[k]]_vars

\* realiser was refused on an act built by a client, realised once and held once
\* by its patient's record
C26_Temoin ==
    /\ last.op = "realiser_acte"
    /\ last.err = "deja_realise"
    /\ last.ret[1].est_realise
    /\ reseau.rendez_vous = <<>>
    /\ ActesDe(last.ret[1].patient) = <<last.ret[1]>>

\* the operations that change a status
OpsStatut == {"annuler_par_patient", "annuler_par_personnel", "realiser"}

C30_ExclusiviteDuPersonnel ==
    \A i, j \in DOMAIN reseau.rendez_vous :
        (/\ i # j
         /\ RendezVousDe(i).statut = PLANIFIE
         /\ RendezVousDe(j).statut = PLANIFIE
         /\ RendezVousDe(i).date_heure = RendezVousDe(j).date_heure)
        => ~ Partage(RendezVousDe(i).personnels, RendezVousDe(j).personnels)

\* a move was refused for a busy staff member: two appointments Planifie at two
\* date-times, for two patients at two centres, share their physician
C30_Temoin ==
    /\ last.op = "modifier_date"
    /\ last.err = "conflit_personnel"
    /\ \E i, j \in DOMAIN reseau.rendez_vous :
          /\ RendezVousDe(i).statut = PLANIFIE
          /\ RendezVousDe(j).statut = PLANIFIE
          /\ RendezVousDe(i).date_heure # RendezVousDe(j).date_heure
          /\ RendezVousDe(i).patient # RendezVousDe(j).patient
          /\ RendezVousDe(i).centre # RendezVousDe(j).centre
          /\ Partage(RendezVousDe(i).personnels, RendezVousDe(j).personnels)

\* the callbacks that have run their checks and not yet written
EnEcriture == {k \in DOMAIN app.en_cours : app.en_cours[k].etape = "verifie"}

\* two appointments Planifie at one date-time that the checks keep apart
Incompatibles(a, b) ==
    /\ a.statut = PLANIFIE
    /\ b.statut = PLANIFIE
    /\ a.date_heure = b.date_heure
    /\ \/ Partage(a.personnels, b.personnels)
       \/ (a.patient = b.patient /\ a.type_acte # b.type_acte)

C29_InterventionTroisNiveaux ==
    [][(last'.op = "realiser_acte_niveau"
        /\ last.ret[1].type_acte = "Intervention chirurgicale")
       => (last'.err = "ok"
             <=> /\ ~ last.ret[1].est_realise
                 /\ Eligible("Intervention chirurgicale", last.ret[1].personnels))]_vars

\* C29, amended: in the modules of levels 2 and 3 the realisation of an
\* intervention succeeds exactly when the act is not realised yet, every member
\* of its staff list is a surgeon or a nurse, and the list holds a surgeon and a
\* nurse; in the module of level 1 it succeeds exactly when the act is not
\* realised yet and every member of its staff list is a surgeon.
C29_InterventionParNiveau ==
    [][(last'.op = "realiser_acte_niveau"
        /\ last.ret[1].type_acte = "Intervention chirurgicale")
       => LET acte == last.ret[1]
          IN  last'.err = "ok"
                <=> /\ ~ acte.est_realise
                    /\ IF acte.niveau = 1
                       THEN \A x \in Elements(acte.personnels) : Classe[x] = "Chirurgien"
                       ELSE Eligible("Intervention chirurgicale", acte.personnels)]_vars

\* an intervention of level 1 whose staff list is the surgeon alone has been
\* realised
C29_Temoin ==
    /\ last.op = "realiser_acte_niveau"
    /\ last.err = "ok"
    /\ last.ret[1].niveau = 1
    /\ last.ret[1].type_acte = "Intervention chirurgicale"
    /\ last.ret[1].personnels = <<"ch1">>
    /\ last.ret[1].est_realise

\* C31: in every state reached through creations, moves, cancellations,
\* fulfilments and changes of availability, no patient has two appointments
\* that are Planifie at the same date-time with different act types.
C31_CreneauDuPatient ==
    [](\A i, j \in DOMAIN reseau.rendez_vous :
          (/\ RendezVousDe(i).statut = PLANIFIE
           /\ RendezVousDe(j).statut = PLANIFIE
           /\ RendezVousDe(i).patient = RendezVousDe(j).patient
           /\ RendezVousDe(i).date_heure = RendezVousDe(j).date_heure)
          => RendezVousDe(i).type_acte = RendezVousDe(j).type_acte)

\* a move was refused for the patient's other appointment: the patient has two
\* appointments Planifie of two types at two date-times, with disjoint staff
C31_Temoin ==
    /\ last.op = "modifier_date"
    /\ last.err = "conflit_patient"
    /\ \E j \in Planifies(last.date) :
          /\ RendezVousDe(j).id_rendez_vous # last.id
          /\ RendezVousDe(j).patient = ObtenirRendezVous(last.id).patient
          /\ RendezVousDe(j).type_acte # ObtenirRendezVous(last.id).type_acte
          /\ ~ Partage(RendezVousDe(j).personnels, ObtenirRendezVous(last.id).personnels)
          /\ ObtenirRendezVous(last.id).statut = PLANIFIE
          /\ ObtenirRendezVous(last.id).date_heure # last.date

\* the act a fulfilment of the appointment records
ActeDe(rdv) == [ConstruireActe(rdv) EXCEPT !.est_realise = TRUE]

\* the registered appointments of a patient that are Realise
Realises(p) ==
    {i \in DOMAIN reseau.rendez_vous :
        RendezVousDe(i).patient = p /\ RendezVousDe(i).statut = REALISE}

\* C32: when acts come from fulfilments only, in every state a patient's record
\* holds as many acts as the patient has appointments Realise, each act is
\* marked realised and is the act of one of those appointments, an appointment
\* Annule having none; a step either leaves a record's acts as they are or is a
\* fulfilment that succeeds and appends its act at the end, so the acts stand in
\* the order of the fulfilments and none is removed or moved.
C32_ActesEtRendezVousRealises ==
    /\ [](\A p \in Patients :
             /\ Len(ActesDe(p)) = Cardinality(Realises(p))
             /\ \A k \in DOMAIN ActesDe(p) :
                   /\ ActesDe(p)[k].est_realise
                   /\ \E i \in Realises(p) : ActesDe(p)[k] = ActeDe(RendezVousDe(i)))
    /\ [][\A p \in Patients :
             \/ patients'[p].dossier_medical.actes = ActesDe(p)
             \/ /\ last'.op = "realiser"
                /\ last'.err = "ok"
                /\ last'.ret[1].patient = p
                /\ patients'[p].dossier_medical.actes = Append(ActesDe(p), last'.ret[1])]_vars

\* a patient's record holds two acts in the order of the fulfilments, which is
\* not the order of registration
C32_Temoin ==
    /\ Len(reseau.rendez_vous) = 2
    /\ RendezVousDe(1).patient = RendezVousDe(2).patient
    /\ ActeDe(RendezVousDe(1)) # ActeDe(RendezVousDe(2))
    /\ ActesDe(RendezVousDe(1).patient) = <<ActeDe(RendezVousDe(2)), ActeDe(RendezVousDe(1))>>

\* s is an initial part of t
EstPrefixe(s, t) == Len(s) <= Len(t) /\ SubSeq(t, 1, Len(s)) = s

\* C33: in every state each registered appointment stands exactly once in the
\* list of its own patient and in no other patient's list, each entry of a
\* patient's list is registered under its id, and the centre of each registered
\* appointment is a centre of the network; no step takes an element out of the
\* registry or out of a patient's list, whatever the status of the appointment.
C33_RegistreEtListes ==
    /\ [](/\ \A i \in DOMAIN reseau.rendez_vous :
               /\ Cardinality({k \in DOMAIN patients[RendezVousDe(i).patient].rendez_vous :
                      patients[RendezVousDe(i).patient].rendez_vous[k]
                          = RendezVousDe(i).id_rendez_vous}) = 1
               /\ \A q \in DOMAIN patients \ {RendezVousDe(i).patient} :
                      RendezVousDe(i).id_rendez_vous \notin Elements(patients[q].rendez_vous)
               /\ RendezVousDe(i).centre \in Elements(reseau.centres)
               /\ Cardinality({j \in DOMAIN reseau.rendez_vous :
                      RendezVousDe(j).id_rendez_vous = RendezVousDe(i).id_rendez_vous}) = 1
          /\ \A p \in DOMAIN patients : \A k \in DOMAIN patients[p].rendez_vous :
               /\ patients[p].rendez_vous[k] \in IdsEnregistres
               /\ ObtenirRendezVous(patients[p].rendez_vous[k]).patient = p)
    /\ [][/\ EstPrefixe([i \in DOMAIN reseau.rendez_vous |-> RendezVousDe(i).id_rendez_vous],
                         [i \in DOMAIN reseau'.rendez_vous |->
                             reseau'.rendez_vous[i].id_rendez_vous])
          /\ \A p \in DOMAIN patients :
                EstPrefixe(patients[p].rendez_vous, patients'[p].rendez_vous)]_vars

\* two patients each have one appointment, one Annule and one Realise, and both
\* are still in the registry and in the lists
C33_Temoin ==
    /\ Len(reseau.rendez_vous) = 2
    /\ RendezVousDe(1).patient # RendezVousDe(2).patient
    /\ {RendezVousDe(1).statut, RendezVousDe(2).statut} = {ANNULE, REALISE}
    /\ patients[RendezVousDe(1).patient].rendez_vous = <<RendezVousDe(1).id_rendez_vous>>
    /\ patients[RendezVousDe(2).patient].rendez_vous = <<RendezVousDe(2).id_rendez_vous>>

\* C34: while a registered appointment is Planifie, realiser_rendez_vous on it
\* and annuler_par_personnel by each member of its staff pass all their checks
\* (a staff list the appointment's constructor accepts for an act type passes
\* the eligibility check of the act of that type),
\* and every such call made returns normally and takes the appointment out of
\* Planifie, whatever transfers, changes of availability, attachments and other
\* appointments came after its creation.
C34_SortieDePlanifie ==
    /\ [](\A i \in DOMAIN reseau.rendez_vous :
             RendezVousDe(i).statut = PLANIFIE =>
                 /\ RealiserErreur(RendezVousDe(i)) = "ok"
                 /\ \A m \in Elements(RendezVousDe(i).personnels) :
                       AnnulerParPersonnelErreur(RendezVousDe(i), m) = "ok")
    /\ [](\A type_acte \in TypeActeMedical, pers \in ListesPersonnels :
             RendezVousPostInit(type_acte, pers) = "ok" =>
                 VerifierHabilitation([type_acte |-> type_acte, personnels |-> pers,
                                       centre |-> "cV"]) = "ok")
    /\ [][(/\ last = Repos
           /\ last'.id \in IdsEnregistres
           /\ ObtenirRendezVous(last'.id).statut = PLANIFIE
           /\ \/ last'.op = "realiser"
              \/ /\ last'.op = "annuler_par_personnel"
                 /\ last'.personnel \in Elements(ObtenirRendezVous(last'.id).personnels))
          => /\ last'.err = "ok"
             /\ reseau'.rendez_vous[IndexDe(last'.id)].statut =
                    IF last'.op = "realiser" THEN REALISE ELSE ANNULE]_vars

\* an appointment has just been fulfilled although its physician is no longer
\* available at its centre, its patient has been transferred and another
\* appointment of the same physician has been registered
C34_Temoin ==
    /\ last.op = "realiser"
    /\ last.err = "ok"
    /\ Len(reseau.rendez_vous) = 2
    /\ ~ EstDisponibleDans(ObtenirRendezVous(last.id).personnels[1],
                           ObtenirRendezVous(last.id).centre)
    /\ patients[ObtenirRendezVous(last.id).patient].centre_actuel
          # ObtenirRendezVous(last.id).centre
    /\ \A i \in DOMAIN reseau.rendez_vous :
          RendezVousDe(i).personnels = ObtenirRendezVous(last.id).personnels

\* the value nombre_rendez_vous_disponibles returns for a registered centre
Capacite(date_heure, centre, type_acte) ==
    NombreParType(PersonnelsDisponiblesParType(date_heure, centre), type_acte)

\* the staff lists RendezVous.__post_init__ accepts for each act type
ListesConformes ==
    [type_acte \in TypeActeMedical |->
        {pers \in ListesPersonnels : RendezVousPostInit(type_acte, pers) = "ok"}]

\* the staff list passes the other checks creer_rendez_vous makes on the staff
\* alone: attachment and availability at the centre and the staff test of the
\* conflict loop at the date
PersonnelsAcceptes(date_heure, centre, pers) ==
    /\ VerifierPersonnelsAffectables(centre, pers) = "ok"
    /\ \A i \in DOMAIN reseau.rendez_vous :
          EstScanne(RendezVousDe(i), date_heure, 0) => ~ ConflitPersonnel(RendezVousDe(i), pers)

\* C35: for a registered centre, a date and an act type the capacity is at
\* least 1 exactly when some staff list passes the attachment and availability
\* check for the centre, the rule of the act type and the staff test of the
\* conflict loop at the date; and a creation of a Consultation or a Soin that
\* succeeds lowers the capacity for its date, centre and type by exactly 1.
\* The first part is stated between two calls: the return of a call changes
\* nothing of the network, so these states hold every value the network takes.
C35_CapaciteEtCreation ==
    /\ [](last = Repos =>
           \A date_heure \in Creneaux, centre \in Elements(reseau.centres),
             type_acte \in TypeActeMedical :
             Capacite(date_heure, centre, type_acte) >= 1
                 <=> \E pers \in ListesConformes[type_acte] :
                        PersonnelsAcceptes(date_heure, centre, pers))
    /\ [][(last = Repos /\ last'.op = "creer" /\ last'.err = "ok") =>
             \A date_heure \in Creneaux, centre \in Elements(reseau.centres),
                type_acte \in {"Consultation", "Soin"} :
                (/\ last'.ret[1].date_heure = date_heure
                 /\ last'.ret[1].centre = centre
                 /\ last'.ret[1].type_acte = type_acte)
                => (Capacite(date_heure, centre, type_acte))'
                       = Capacite(date_heure, centre, type_acte) - 1]_vars

\* a second Consultation has just been registered at a date and a centre, and
\* the capacity for consultations there is now 0 while a Soin is still possible
C35_Temoin ==
    /\ last.op = "creer"
    /\ last.err = "ok"
    /\ last.ret[1].type_acte = "Consultation"
    /\ Cardinality(Planifies(last.ret[1].date_heure)) = 2
    /\ Capacite(last.ret[1].date_heure, last.ret[1].centre, "Consultation") = 0
    /\ Capacite(last.ret[1].date_heure, last.ret[1].centre, "Soin") = 1

\* the registry without the appointment at a position
SansRendezVous(k) ==
    SelectSeq(reseau.rendez_vous,
              LAMBDA x : x.id_rendez_vous # RendezVousDe(k).id_rendez_vous)

\* the creations at a date refused for a planning conflict that succeed on the
\* registry without the appointment at position k
CreationsBloqueesPar(k, date_heure) ==
    {r \in {q \in Requetes : q.date_heure = date_heure} :
        \E id_rdv \in IdsRdv :
           /\ CreerErreur(id_rdv, date_heure, r.patient, r.centre, r.type_acte, r.pers)
                 \in ErreursConflit
           /\ CreerErreurDans(SansRendezVous(k), id_rdv, date_heure, r.patient, r.centre,
                              r.type_acte, r.pers) = "ok"}

\* the appointments whose move to a date is refused for a planning conflict
\* and passes the conflict loop on the registry without the appointment at k
DeplacementsBloquesPar(k, date_heure) ==
    {j \in DOMAIN reseau.rendez_vous \ {k} :
        /\ ModifierDateErreur(RendezVousDe(j), date_heure) \in ErreursConflit
        /\ VerifierConflitsDans(SansRendezVous(k), RendezVousDe(j).patient,
                                RendezVousDe(j).type_acte, RendezVousDe(j).personnels,
                                date_heure, RendezVousDe(j).id_rendez_vous) = "ok"}

\* C36: in the step that takes a registered appointment out of Planifie, by a
\* cancellation or a fulfilment, each member of its staff leaves the busy staff
\* of its date and is a candidate again at every centre where the member is
\* rostered and available; every creation at that date that was refused for a
\* conflict with that appointment alone, and every move to that date refused
\* for that reason alone, passes all its checks after the step.
C36_SeulPlanifieOccupe ==
    [][last = Repos =>
         \A k \in DOMAIN reseau.rendez_vous :
            (RendezVousDe(k).statut = PLANIFIE /\ reseau'.rendez_vous[k].statut # PLANIFIE)
            => /\ \A x \in Elements(RendezVousDe(k).personnels) :
                    /\ x \in PersonnelsOccupes(RendezVousDe(k).date_heure)
                    /\ x \notin (PersonnelsOccupes(RendezVousDe(k).date_heure))'
                    /\ \A centre \in Elements(reseau.centres) :
                          (/\ x \in Elements(centres[centre].personnels)
                           /\ EstDisponibleDans(x, centre))
                          => x \in Elements((Candidats(RendezVousDe(k).date_heure, centre))')
               /\ \A r \in CreationsBloqueesPar(k, RendezVousDe(k).date_heure) :
                    \A id_rdv \in IdsRdv \ IdsEnregistres :
                       (CreerErreur(id_rdv, r.date_heure, r.patient, r.centre,
                                    r.type_acte, r.pers))' = "ok"
               /\ \A j \in DeplacementsBloquesPar(k, RendezVousDe(k).date_heure) :
                    \E t \in {RendezVousDe(k).date_heure} :
                       (ModifierDateErreur(RendezVousDe(j), t))' = "ok"]_vars

\* a creation has just succeeded at the date of an appointment that is Realise,
\* with the staff of that appointment
C36_Temoin ==
    /\ last.op = "creer"
    /\ last.err = "ok"
    /\ Len(reseau.rendez_vous) = 2
    /\ RendezVousDe(1).statut = REALISE
    /\ RendezVousDe(2).statut = PLANIFIE
    /\ RendezVousDe(2).date_heure = RendezVousDe(1).date_heure
    /\ RendezVousDe(2).personnels = RendezVousDe(1).personnels
    /\ RendezVousDe(2).type_acte = "Intervention chirurgicale"

\* C37: in every state, for each patient (the record of each was opened by the
\* patient's constructor, at the centre given to it), the current centre is
\* the reference centre of the record, the first transfer of the record leaves
\* the centre given at construction, each later transfer leaves the centre the
\* one before it arrived at, and no transfer has the same centre at both ends.
C37_ChaineDesTransferts ==
    [](\A p \in DOMAIN patients :
          LET transferts == patients[p].dossier_medical.transferts
          IN  /\ patients[p].centre_actuel = patients[p].dossier_medical.centre_reference
              /\ transferts # <<>> => transferts[1].ancien_centre = CentreOriginal[p]
              /\ \A i \in DOMAIN transferts :
                    /\ i > 1 => transferts[i].ancien_centre = transferts[i - 1].nouveau_centre
                    /\ transferts[i].ancien_centre # transferts[i].nouveau_centre)

\* a patient has just been transferred a second time: the record holds two
\* transfers
C37_Temoin ==
    /\ last.op = "transferer"
    /\ last.err = "ok"
    /\ Len(patients[last.patient].dossier_medical.transferts) = MaxTransferts
    /\ patients[last.patient].centre_actuel = last.centre

\* C38: definir_disponibilite succeeds exactly when the centre is one the staff
\* member is attached to, whatever appointments the member has; the call
\* changes no appointment and no patient, and after it a fulfilment of any
\* registered appointment and a move of it to any date have the outcome they
\* had before it, so an appointment that is Planifie can still be fulfilled and
\* is moved whenever the conflict loop passes.
C38_DisponibiliteSansEffetSurLesRendezVous ==
    /\ [][(last = Repos /\ last'.op = "definir_disponibilite") =>
             /\ last'.err = "ok" <=>
                   last'.centre \in Elements(personnels[last'.personnel].centres_rattaches)
             /\ reseau' = reseau
             /\ patients' = patients
             /\ \A i \in DOMAIN reseau.rendez_vous :
                   /\ (RealiserErreur(RendezVousDe(i)))' = RealiserErreur(RendezVousDe(i))
                   /\ \A t \in Creneaux :
                         (ModifierDateErreur(RendezVousDe(i), t))'
                             = ModifierDateErreur(RendezVousDe(i), t)]_vars
    /\ [](\A i \in DOMAIN reseau.rendez_vous :
             RendezVousDe(i).statut = PLANIFIE =>
                 /\ RealiserErreur(RendezVousDe(i)) = "ok"
                 /\ \A t \in Creneaux :
                       ModifierDateErreur(RendezVousDe(i), t) =
                           VerifierConflits(RendezVousDe(i).patient, RendezVousDe(i).type_acte,
                                            RendezVousDe(i).personnels, t,
                                            RendezVousDe(i).id_rendez_vous))

\* a staff member has just been made available at a centre while an
\* appointment of the member is Planifie at another centre; the appointment
\* can be fulfilled and can be moved to the other date
C38_Temoin ==
    /\ last.op = "definir_disponibilite"
    /\ last.err = "ok"
    /\ \E i \in DOMAIN reseau.rendez_vous :
          /\ RendezVousDe(i).statut = PLANIFIE
          /\ last.personnel \in Elements(RendezVousDe(i).personnels)
          /\ RendezVousDe(i).centre # last.centre
          /\ ~ EstDisponibleDans(last.personnel, RendezVousDe(i).centre)
          /\ RealiserErreur(RendezVousDe(i)) = "ok"
          /\ \E t \in Creneaux \ {RendezVousDe(i).date_heure} :
                ModifierDateErreur(RendezVousDe(i), t) = "ok"

\* the appointment of the hospital of niveau2 at a position of its dict
RendezVousNiveau2(i) == gestion.rendez_vous[i]

\* C39: on the network of one centre and the hospital of niveau2 given the same
\* calls (creation, the two cancellations, move, fulfilment, capacity), in every
\* state the two registries hold the same identifiers in the same order with
\* the same status, date-time, patient, act type and staff, each patient has as
\* many acts in the record of the one as in the record of the other, the
\* capacity of the centre equals the capacity of the hospital for every date
\* and act type, and the call just made has succeeded on both or failed on
\* both, a capacity call returning the same number.
C39_UnCentreCommeNiveau2 ==
    [](/\ Len(reseau.rendez_vous) = Len(gestion.rendez_vous)
       /\ \A i \in DOMAIN reseau.rendez_vous :
             /\ RendezVousDe(i).id_rendez_vous = RendezVousNiveau2(i).id_rendez_vous
             /\ RendezVousDe(i).statut = RendezVousNiveau2(i).statut
             /\ RendezVousDe(i).date_heure = RendezVousNiveau2(i).date_heure
             /\ RendezVousDe(i).patient = RendezVousNiveau2(i).patient
             /\ RendezVousDe(i).type_acte = RendezVousNiveau2(i).type_acte
             /\ RendezVousDe(i).personnels = RendezVousNiveau2(i).personnels
       /\ \A p \in Patients :
             /\ Len(ActesDe(p)) = Len(gestion.patients[p].dossier_medical.actes)
             /\ patients[p].rendez_vous = gestion.patients[p].rendez_vous
       /\ \A date_heure \in Creneaux, type_acte \in TypeActeMedical :
             Capacite(date_heure, CentreUnique, type_acte) = NombreNiveau2(date_heure, type_acte)
       /\ last # Repos =>
             /\ last.op = gestion.dernier.op
             /\ last.err = "ok" <=> gestion.dernier.err = "ok"
             /\ last.op = "nombre" => last.ret = gestion.dernier.ret)

\* a capacity call has just returned 0 on both for consultations at a date
\* where the hospital's physician has one appointment Realise, whose act is in
\* the record on both, and one Planifie
C39_Temoin ==
    /\ last.op = "nombre"
    /\ last.ret = <<0>>
    /\ gestion.dernier.ret = <<0>>
    /\ last.type_acte = "Consultation"
    /\ Len(gestion.rendez_vous) = 2
    /\ RendezVousNiveau2(1).statut = REALISE
    /\ RendezVousNiveau2(2).statut = PLANIFIE
    /\ RendezVousNiveau2(1).date_heure = last.date
    /\ RendezVousNiveau2(2).date_heure = last.date
    /\ RendezVousNiveau2(1).personnels = RendezVousNiveau2(2).personnels
    /\ Len(ActesDe(RendezVousDe(1).patient)) = 1
    /\ Len(gestion.patients[RendezVousNiveau2(1).patient].dossier_medical.actes) = 1

====
